---- MODULE Spec2Model ----
(***************************************************************************)
(* Rule monitoring platform: the scheduler service's reconciler / event    *)
(* handlers (cmd/worker/main.go), the job registry with its tickers, job   *)
(* queue and workers (internal/scheduler/registry), the rule store rows    *)
(* written by the rule service, and the alert store.                       *)
(***************************************************************************)
EXTENDS Integers, Sequences, FiniteSets, TLC

(***************************************************************************)
(* Bounds of the model                                                     *)
(***************************************************************************)
MaxOps == 3          \* operator requests / reloads issued in one behaviour
MaxJobs == 3         \* Jobs ever created by Schedule in one behaviour
QueueCap == 1        \* capacity of Registry.queue (128 in NewRegistry)
MaxTicks == 2        \* ticker firings in one behaviour
NumWorkers == 2      \* worker tasks (WORKER_COUNT) executing a backlog
RunWorkers == 1      \* worker tasks (WORKER_COUNT) of the registry at run time
MaxTime == 2         \* clock readings 0..MaxTime (seconds)
MaxSamples == 3      \* samples (or subgroups) handed to one detector call
MaxCols == 2         \* columns selected on the unit before the calls
ColumnLimit == 2     \* stands for maxSelectedColumns (200) of the rule service
MaxStops == 2        \* Registry.Stop calls in one behaviour

Rules == {"r1", "r2"}
Workers == 1..NumWorkers

Subjects == {"rule.created", "rule.updated", "rule.enabled", "rule.disabled", "rule.deleted"}
Handlers == Subjects \cup {"reload"}

(***************************************************************************)
(* Detector configuration (ParameterSpec / DetectorSpec).  A nil pointer   *)
(* is a record with present = FALSE (set = FALSE for a nil *float64).      *)
(***************************************************************************)
Unset == [set |-> FALSE, v |-> 0]
Limit(v) == [set |-> TRUE, v |-> v]

NoThreshold == [present |-> FALSE, op |-> "", value |-> 0]
NoBounds == [present |-> FALSE, hi |-> Unset, lo |-> Unset]
NoSpecLimit == [present |-> FALSE, mode |-> "", epsilon |-> 0,
                specLimits |-> NoBounds, controlLimits |-> NoBounds]
NoTrend == [present |-> FALSE, windowSize |-> 0, epsilon |-> 0]

DetectorSpec(type, threshold, specLimit, trend) ==
    [type |-> type, threshold |-> threshold, specLimit |-> specLimit, trend |-> trend]

\* threshold "> 5" on column temp, parameterName left empty
TempParam ==
    [parameterName |-> "", valueColumn |-> "temp",
     detector |-> DetectorSpec("threshold", [present |-> TRUE, op |-> ">", value |-> 5],
                               NoSpecLimit, NoTrend)]

\* spec_limit, mode "" (= spec), LSL 2, USL 6
PressParam ==
    [parameterName |-> "press", valueColumn |-> "press",
     detector |-> DetectorSpec("spec_limit", NoThreshold,
                    [present |-> TRUE, mode |-> "", epsilon |-> 0,
                     specLimits |-> [present |-> TRUE, hi |-> Limit(6), lo |-> Limit(2)],
                     controlLimits |-> NoBounds],
                    NoTrend)]

\* spec_limit, mode both, USL 6 but no control limits
BothParam ==
    [parameterName |-> "flow", valueColumn |-> "flow",
     detector |-> DetectorSpec("spec_limit", NoThreshold,
                    [present |-> TRUE, mode |-> "both", epsilon |-> 0,
                     specLimits |-> [present |-> TRUE, hi |-> Limit(6), lo |-> Unset],
                     controlLimits |-> NoBounds],
                    NoTrend)]

\* spec_limit without its configuration block
BareParam ==
    [parameterName |-> "level", valueColumn |-> "level",
     detector |-> DetectorSpec("spec_limit", NoThreshold, NoSpecLimit, NoTrend)]

\* trend over the last 2 samples
TrendParam ==
    [parameterName |-> "rpm", valueColumn |-> "rpm",
     detector |-> DetectorSpec("trend", NoThreshold, NoSpecLimit,
                               [present |-> TRUE, windowSize |-> 2, epsilon |-> 0])]

(***************************************************************************)
(* Rule documents.  A rule_json value is modelled by what json.Unmarshal   *)
(* makes of it: ok = FALSE for a malformed document, else the RuleSpec.    *)
(* cooldownSeconds 0 stands for both a nil pointer and an explicit 0.      *)
(***************************************************************************)
MinPollSeconds == 5
MaxPollSeconds == 3600

RuleSpec(conn, table, poll, cooldown, params) ==
    [connectionRef |-> conn, table |-> table, pollIntervalSeconds |-> poll,
     cooldownSeconds |-> cooldown, parameters |-> params]

ZeroSpec == RuleSpec("", "", 0, 0, <<>>)
Good10 == RuleSpec("c1", "telemetry", 10, 0, <<TempParam>>)
Good20 == RuleSpec("c1", "telemetry", 20, 0, <<TempParam>>)
NoConn == RuleSpec("cX", "telemetry", 10, 0, <<TempParam>>)
NoAdapter == RuleSpec("c2", "telemetry", 10, 0, <<TempParam>>)
BadTable == RuleSpec("c1", "ghost", 10, 0, <<TempParam>>)
BadPoll == RuleSpec("c1", "telemetry", 2, 0, <<TempParam>>)

\* the rule scheduled at run time
Cool10 == RuleSpec("c1", "telemetry", 10, 2, <<TempParam>>)

\* the rules whose backlog the workers execute
CoolA == RuleSpec("c1", "telemetry", 10, 2, <<TempParam, BothParam>>)
CoolB == RuleSpec("c1", "telemetry", 10, 2, <<BareParam, PressParam>>)
PlainC == RuleSpec("c1", "telemetry", 10, 0, <<TrendParam, TempParam>>)
ExecSpecs == {CoolA, CoolB, PlainC}

RuleSpecs == {Good10, Good20, NoConn, NoAdapter, BadTable, BadPoll}
Malformed == [ok |-> FALSE, spec |-> ZeroSpec]
ValidJSONs == {[ok |-> TRUE, spec |-> s] : s \in RuleSpecs}
RuleJSONs == ValidJSONs \cup {Malformed}
\* documents the operators of one behaviour submit
OpJSONs == {[ok |-> TRUE, spec |-> s] : s \in {Good10, Good20, BadTable}}

Statuses == {"DRAFT", "ACTIVE", "INVALID", "DISABLED"}

NoRow == [exists |-> FALSE, enabled |-> FALSE, status |-> "DRAFT", json |-> Malformed]
RuleRows == [exists : {TRUE}, enabled : BOOLEAN, status : Statuses, json : RuleJSONs]

(***************************************************************************)
(* The environment the scheduler resolves a rule against: db_connections   *)
(* rows, the adapter registry, the allowlist and the source database.      *)
(***************************************************************************)
\* db_connections: id -> type ("" when the row is missing)
GetConnectionType(id) ==
    IF id = "c1" THEN "MySQL" ELSE IF id = "c2" THEN "oracle" ELSE ""

ToLower(t) == IF t = "MySQL" THEN "mysql" ELSE t

AdapterTypes == {"mysql", "postgres"}

AdapterFor(dbType) == ToLower(dbType) \in AdapterTypes

AllowlistTables == {}

AllowsTable(table) == AllowlistTables = {} \/ table \in AllowlistTables

ListTables == {"telemetry", "events"}

RuntimeValidateRuleAlwaysOK(spec) == TRUE

RuntimeValidateRule(spec) ==
    /\ ~(spec.pollIntervalSeconds < MinPollSeconds \/ spec.pollIntervalSeconds > MaxPollSeconds)
    /\ AllowsTable(spec.table)
    /\ spec.table \in ListTables

ResolveFailure(spec) ==
    IF GetConnectionType(spec.connectionRef) = "" THEN "conn"
    ELSE IF ~AdapterFor(GetConnectionType(spec.connectionRef)) THEN "adapter"
    ELSE IF ~RuntimeValidateRule(spec) THEN "validate"
    ELSE ""

(***************************************************************************)
(* Detectors.  A DetectorResult is modelled by its Hit, its Status and the *)
(* limit names of its Violations, in the order they were added; err tells  *)
(* whether evaluateParameter returned an error next to it.  Values are     *)
(* integers; a comparison of quotients or roots is made on the products    *)
(* and squares, which orders them the same way.                            *)
(***************************************************************************)
statusOK == "OK"
statusViolation == "VIOLATION"
statusInsufficient == "INSUFFICIENT_DATA"
statusInvalidConfig == "INVALID_CONFIG"

statusFromHit(hit) == IF hit THEN statusViolation ELSE statusOK

Result(hit, status) == [err |-> FALSE, hit |-> hit, status |-> status, violations |-> <<>>]
\* return DetectorResult{}, err
ErrResult == [err |-> TRUE, hit |-> FALSE, status |-> "", violations |-> <<>>]

\* result.Hit = true; result.Status = statusViolation; addViolation(...)
addViolation(result, name) ==
    [result EXCEPT !.hit = TRUE, !.status = statusViolation,
                   !.violations = Append(@, name)]

invalidConfig == Result(FALSE, statusInvalidConfig)
insufficientData == Result(FALSE, statusInsufficient)

\* what the adapter answers: an error, or the latest value (numeric or
\* not) together with the recent rows, oldest first
ErrResp == [err |-> TRUE, numeric |-> FALSE, value |-> 0, samples |-> <<>>]
Resp(numeric, value, samples) ==
    [err |-> FALSE, numeric |-> numeric, value |-> value, samples |-> samples]
Responses == {ErrResp, Resp(FALSE, 0, <<>>), Resp(TRUE, 1, <<1>>),
              Resp(TRUE, 5, <<5, 5>>), Resp(TRUE, 9, <<1, 5, 9>>)}

EvaluateCondition(cond, resp) ==
    IF ~resp.numeric THEN FALSE
    ELSE IF cond.op = ">" THEN resp.value > cond.value
    ELSE IF cond.op = ">=" THEN resp.value >= cond.value
    ELSE IF cond.op = "<" THEN resp.value < cond.value
    ELSE IF cond.op = "<=" THEN resp.value <= cond.value
    ELSE IF cond.op = "==" THEN resp.value = cond.value
    ELSE IF cond.op = "!=" THEN resp.value # cond.value
    ELSE FALSE

EvaluateThresholdDetector(threshold, resp) ==
    Result(EvaluateCondition(threshold, resp),
           statusFromHit(EvaluateCondition(threshold, resp)))

Missing(b) == ~b.present \/ (~b.hi.set /\ ~b.lo.set)

Breach(b, value, epsilon) ==
    \/ b.hi.set /\ value > b.hi.v + epsilon
    \/ b.lo.set /\ value < b.lo.v - epsilon

\* the breach(limit, kind) calls made for one pair of bounds, upper first
Breaches(result, b, value, epsilon, hiName, loName) ==
    LET r1 == IF b.hi.set /\ value > b.hi.v + epsilon
                THEN addViolation(result, hiName) ELSE result
    IN  IF b.lo.set /\ value < b.lo.v - epsilon THEN addViolation(r1, loName) ELSE r1

EvaluateSpecLimitKeepResult(value, spec) ==
    LET mode == IF spec.mode = "" THEN "spec" ELSE spec.mode
        bySpec == mode = "spec" \/ mode = "both"
        byControl == mode = "control" \/ mode = "both"
        r0 == Result(FALSE, statusOK)
        r1 == IF bySpec THEN Breaches(r0, spec.specLimits, value, spec.epsilon, "USL", "LSL")
              ELSE r0
        r2 == IF byControl
                THEN Breaches(r1, spec.controlLimits, value, spec.epsilon, "UCL", "LCL")
                ELSE r1
    IN  IF bySpec /\ Missing(spec.specLimits) THEN invalidConfig
        ELSE IF byControl /\ Missing(spec.controlLimits)
               THEN [r1 EXCEPT !.status = statusInvalidConfig]
        ELSE r2

EvaluateSpecLimit(value, spec) ==
    LET mode == IF spec.mode = "" THEN "spec" ELSE spec.mode
        bySpec == mode = "spec" \/ mode = "both"
        byControl == mode = "control" \/ mode = "both"
        r0 == Result(FALSE, statusOK)
        r1 == IF bySpec THEN Breaches(r0, spec.specLimits, value, spec.epsilon, "USL", "LSL")
              ELSE r0
        r2 == IF byControl
                THEN Breaches(r1, spec.controlLimits, value, spec.epsilon, "UCL", "LCL")
                ELSE r1
    IN  IF bySpec /\ Missing(spec.specLimits) THEN invalidConfig
        ELSE IF byControl /\ Missing(spec.controlLimits) THEN invalidConfig
        ELSE r2

defaultTrendWindowSize == 6

EvaluateTrend6(samples, spec) ==
    LET window == IF spec.windowSize = 0 THEN defaultTrendWindowSize ELSE spec.windowSize
        n == Len(samples)
        first == n - window + 1
        increasing == \A i \in first..(n - 1) : samples[i + 1] > samples[i] + spec.epsilon
        decreasing == \A i \in first..(n - 1) : samples[i + 1] < samples[i] - spec.epsilon
    IN  IF n < window THEN insufficientData
        ELSE IF increasing \/ decreasing
               THEN addViolation(Result(FALSE, statusOK), "trend")
        ELSE Result(FALSE, statusOK)

(***************************************************************************)
(* The statistical detectors.                                              *)
(***************************************************************************)
defaultBaselineMinN == 20
defaultBaselineSubgroups == 10

Abs(x) == IF x < 0 THEN -x ELSE x

RECURSIVE SumSeq(_)
SumSeq(s) == IF s = <<>> THEN 0 ELSE Head(s) + SumSeq(Tail(s))

\* twice Median(values): the middle element of the sorted list, or the mean
\* of the two middle ones
Median2(values) ==
    LET sorted == SortSeq(values, LAMBDA a, b : a < b)
        mid == Len(values) \div 2
    IN  IF Len(values) = 0 THEN 0
        ELSE IF Len(values) % 2 = 0 THEN sorted[mid] + sorted[mid + 1]
        ELSE 2 * sorted[mid + 1]

\* four times MAD(values, median)
MAD4(values) ==
    Median2([i \in 1..Len(values) |-> Abs(2 * values[i] - Median2(values))])

\* score = 0.6745 * (latest - median) / mad, compared with zCrit and zWarn
EvaluateRobustZ(samples, latest, zWarn, zCrit) ==
    LET dist == 2 * 6745 * Abs(2 * latest - Median2(samples))
        mad4 == MAD4(samples)
    IN  IF mad4 = 0
          THEN Result(2 * latest # Median2(samples),
                      statusFromHit(2 * latest # Median2(samples)))
        ELSE IF dist >= zCrit * 10000 * mad4 THEN Result(TRUE, statusViolation)
        ELSE IF dist >= zWarn * 10000 * mad4 THEN Result(TRUE, statusViolation)
        ELSE Result(FALSE, statusOK)

EvaluateMissingData(latestTS, maxGapSeconds, clock) ==
    Result(clock - latestTS > maxGapSeconds, statusFromHit(clock - latestTS > maxGapSeconds))

\* mean = S / n; sigma^2 = D / n^2 (population) or D / (n (n - 1)) (sample),
\* where S is the sum, Q the sum of squares and D = n Q - S^2
EvaluateShewhart(values, spec, sigmaMultiplier) ==
    LET n == Len(values)
        S == SumSeq(values)
        D == n * SumSeq([i \in 1..n |-> values[i] * values[i]]) - S * S
        minBaseline == IF spec.minBaselineN = 0 THEN defaultBaselineMinN
                       ELSE spec.minBaselineN
        d == n * values[n] - S
        k2 == sigmaMultiplier * sigmaMultiplier
        beyond == IF spec.populationSigma THEN d * d > k2 * D
                  ELSE d * d * (n - 1) > k2 * D * n
        sigmaZero == D = 0 \/ (~spec.populationSigma /\ n < 2)
        r0 == Result(FALSE, statusOK)
        r1 == IF d > 0 /\ beyond THEN addViolation(r0, "UCL") ELSE r0
    IN  IF n < minBaseline THEN insufficientData
        ELSE IF sigmaZero THEN (IF d # 0 THEN addViolation(r0, "mean") ELSE r0)
        ELSE IF d < 0 /\ beyond THEN addViolation(r1, "LCL")
        ELSE r1

\* D3 and D4 by subgroup size, in thousandths
rangeChartConstants ==
    [s \in 2..10 |->
        CASE s = 2 -> [D3 |-> 0, D4 |-> 3267]
          [] s = 3 -> [D3 |-> 0, D4 |-> 2574]
          [] s = 4 -> [D3 |-> 0, D4 |-> 2282]
          [] s = 5 -> [D3 |-> 0, D4 |-> 2114]
          [] s = 6 -> [D3 |-> 0, D4 |-> 2004]
          [] s = 7 -> [D3 |-> 76, D4 |-> 1924]
          [] s = 8 -> [D3 |-> 136, D4 |-> 1864]
          [] s = 9 -> [D3 |-> 184, D4 |-> 1816]
          [] s = 10 -> [D3 |-> 223, D4 |-> 1777]]

subgroupRange(group) ==
    LET vs == {group[i] : i \in 1..Len(group)} IN
    IF vs = {} THEN 0
    ELSE (CHOOSE hi \in vs : \A v \in vs : v <= hi) - (CHOOSE lo \in vs : \A v \in vs : lo <= v)

\* the limits of the chart once the constants are at hand
RangeChartLimits(groups, consts) ==
    LET n == Len(groups)
        ranges == [i \in 1..n |-> subgroupRange(groups[i])]
        sumR == SumSeq(ranges)
        latestRange == ranges[n]
    IN  IF latestRange * 1000 * n > consts.D4 * sumR \/ latestRange * 1000 * n < consts.D3 * sumR
          THEN addViolation(Result(FALSE, statusOK), "R")
          ELSE Result(FALSE, statusOK)

EvaluateRangeChartAnySize(groups, spec) ==
    LET minGroups == IF spec.minBaselineSubgroups = 0 THEN defaultBaselineSubgroups
                     ELSE spec.minBaselineSubgroups
    IN  IF Len(groups) = 0 THEN insufficientData
        ELSE IF Len(groups) < minGroups THEN insufficientData
        ELSE RangeChartLimits(groups, rangeChartConstants[
                 IF spec.subgroupSize \in DOMAIN rangeChartConstants
                   THEN spec.subgroupSize ELSE 2])

EvaluateRangeChart(groups, spec) ==
    LET minGroups == IF spec.minBaselineSubgroups = 0 THEN defaultBaselineSubgroups
                     ELSE spec.minBaselineSubgroups
    IN  IF Len(groups) = 0 THEN insufficientData
        ELSE IF Len(groups) < minGroups THEN insufficientData
        ELSE IF spec.subgroupSize \notin DOMAIN rangeChartConstants THEN invalidConfig
        ELSE RangeChartLimits(groups, rangeChartConstants[spec.subgroupSize])

\* slope = num / den with den = n * sumX2 - sumX * sumX (never negative)
LinearRegression(xVals, yVals) ==
    LET n == Len(xVals)
        sumX == SumSeq(xVals)
        sumY == SumSeq(yVals)
        sumXY == SumSeq([i \in 1..n |-> xVals[i] * yVals[i]])
        sumX2 == SumSeq([i \in 1..n |-> xVals[i] * xVals[i]])
    IN  IF Len(xVals) # Len(yVals) \/ n < 2 \/ n * sumX2 - sumX * sumX = 0
          THEN [ok |-> FALSE, num |-> 0, den |-> 1]
          ELSE [ok |-> TRUE, num |-> n * sumXY - sumX * sumY,
                den |-> n * sumX2 - sumX * sumX]

\* computeTimeToSpec as margin / |slope|: the margin to the limit the value
\* is moving to (ok = FALSE when that limit is not set)
computeTimeToSpec(num, current, limits) ==
    IF num > 0 /\ limits.hi.set THEN [ok |-> TRUE, margin |-> limits.hi.v - current]
    ELSE IF num < 0 /\ limits.lo.set THEN [ok |-> TRUE, margin |-> current - limits.lo.v]
    ELSE [ok |-> FALSE, margin |-> 0]

\* a TPASpec; samples are records [ts, value]
EvaluateTPAKeepResult(samples, spec) ==
    LET first == Len(samples) - spec.windowN
        window == [i \in 1..spec.windowN |-> samples[first + i]]
        basis == IF spec.regressionTimeBasis = "" THEN "timestamp"
                 ELSE spec.regressionTimeBasis
        xVals == [i \in 1..spec.windowN |-> IF basis = "timestamp" THEN window[i].ts ELSE i]
        yVals == [i \in 1..spec.windowN |-> window[i].value]
        reg == LinearRegression(xVals, yVals)
        latest == window[spec.windowN].value
        r0 == Result(FALSE, statusOK)
        r1 == IF spec.slopeThreshold.set /\ Abs(reg.num) >= spec.slopeThreshold.v * reg.den
                THEN addViolation(r0, "slope") ELSE r0
        tts == computeTimeToSpec(reg.num, latest, spec.specLimits)
    IN  IF spec.windowN < 3 THEN invalidConfig
        ELSE IF Len(samples) < spec.windowN THEN insufficientData
        ELSE IF ~reg.ok THEN invalidConfig
        ELSE IF Abs(reg.num) <= spec.epsilon * reg.den THEN r0
        ELSE IF ~spec.timeToSpecThreshold.set THEN r1
        ELSE IF spec.requireSpecLimits /\ ~spec.specLimits.present
               THEN [r1 EXCEPT !.status = statusInvalidConfig]
        ELSE IF ~spec.specLimits.present THEN r1
        ELSE IF tts.ok /\ tts.margin >= 0
                /\ tts.margin * reg.den <= spec.timeToSpecThreshold.v * Abs(reg.num)
               THEN addViolation(r1, "timeToSpec")
        ELSE r1

EvaluateTPA(samples, spec) ==
    LET first == Len(samples) - spec.windowN
        window == [i \in 1..spec.windowN |-> samples[first + i]]
        basis == IF spec.regressionTimeBasis = "" THEN "timestamp"
                 ELSE spec.regressionTimeBasis
        xVals == [i \in 1..spec.windowN |-> IF basis = "timestamp" THEN window[i].ts ELSE i]
        yVals == [i \in 1..spec.windowN |-> window[i].value]
        reg == LinearRegression(xVals, yVals)
        latest == window[spec.windowN].value
        r0 == Result(FALSE, statusOK)
        r1 == IF spec.slopeThreshold.set /\ Abs(reg.num) >= spec.slopeThreshold.v * reg.den
                THEN addViolation(r0, "slope") ELSE r0
        tts == computeTimeToSpec(reg.num, latest, spec.specLimits)
    IN  IF spec.windowN < 3 THEN invalidConfig
        ELSE IF Len(samples) < spec.windowN THEN insufficientData
        ELSE IF ~reg.ok THEN invalidConfig
        ELSE IF Abs(reg.num) <= spec.epsilon * reg.den THEN r0
        ELSE IF ~spec.timeToSpecThreshold.set THEN r1
        ELSE IF spec.requireSpecLimits /\ ~spec.specLimits.present THEN invalidConfig
        ELSE IF ~spec.specLimits.present THEN r1
        ELSE IF tts.ok /\ tts.margin >= 0
                /\ tts.margin * reg.den <= spec.timeToSpecThreshold.v * Abs(reg.num)
               THEN addViolation(r1, "timeToSpec")
        ELSE r1

evaluateParameter(param, resp) ==
    LET d == param.detector IN
    IF d.type = "spec_limit" THEN
        IF ~d.specLimit.present THEN ErrResult
        ELSE IF resp.err THEN ErrResult
        ELSE IF ~resp.numeric THEN ErrResult
        ELSE EvaluateSpecLimit(resp.value, d.specLimit)
    ELSE IF d.type = "trend" THEN
        IF ~d.trend.present THEN ErrResult
        ELSE IF resp.err THEN ErrResult
        ELSE EvaluateTrend6(resp.samples, d.trend)
    ELSE
        IF ~d.threshold.present THEN ErrResult
        ELSE IF resp.err THEN ErrResult
        ELSE EvaluateThresholdDetector(d.threshold, resp)

normalizeParameters(spec) ==
    [i \in 1..Len(spec.parameters) |->
        IF spec.parameters[i].parameterName = ""
          THEN [spec.parameters[i] EXCEPT !.parameterName = spec.parameters[i].valueColumn]
          ELSE spec.parameters[i]]

\* monitor.WithinCooldown: time.Since(last) < cooldownSeconds * time.Second
WithinCooldown(last, cooldownSeconds, clock) == clock - last < cooldownSeconds

(***************************************************************************)
(* State                                                                   *)
(***************************************************************************)
VARIABLES
    rows,       \* rules table: ruleId -> row
    pending,    \* per subscription: events published and not yet delivered
    ops,        \* operator requests issued so far
    lastPub,    \* observed: per rule, the last event published for it
    hpc,        \* per handler: position inside processRule
    hrule,      \* per handler: ruleID argument
    hspec,      \* per handler: spec decoded from the loaded row
    todo,       \* reconcile: enabled rules listed and not yet processed
    jobs,       \* Registry.jobs: ruleId -> index into jobTab (0 = no entry)
    jobTab,     \* every Job created so far: ruleID, spec, stop, ticker
    stoppc,     \* Registry.Stop: "idle", "lock" (ctx cancelled), "done"
    queue,      \* Registry.queue: buffered JobRuns
    ticks,      \* ticker firings so far
    wpc,        \* per worker: position inside worker / execute
    wrun,       \* per worker: the JobRun being executed
    wi,         \* per worker: index of the parameter being handled
    wres,       \* per worker: result, err of the last evaluateParameter
    wlast,      \* per worker: lastAlert, err of the last GetLastAlertForKey
    wdl,        \* per worker: the jobTimeout deadline of the run being executed
    alerts,     \* alerts table, in insertion order
    now,        \* wall clock, seconds
    evals,      \* observed: evaluateParameter calls (run, parameter index, failed)
    done,       \* observed: runs whose execute returned, with their parameter count
    snap,       \* observed: status and job policy when processRule was entered
    calls,      \* direct processRule invocations so far
    fin,        \* argument a function under study is applied to
    fout,       \* what the function returned (NotYet before the call)
    udb,        \* machine_units.selected_columns of the unit, as committed
    ulock,      \* the transaction holding the unit's row lock (0 = none)
    upc,        \* per UpdateColumns call: position inside the transaction
    ucur,       \* per UpdateColumns call: the array it read
    mu,         \* Registry.mu: the caller holding it (0 = unlocked)
    cpc,        \* per registry caller: position inside its call
    cop,        \* per registry caller: the call it makes
    nstop       \* observed: Stop calls that have run their locked part

cvars == <<rows, pending, ops, lastPub, hpc, hrule, hspec, todo>>
rvars == <<jobs, jobTab, stoppc>>
wvars == <<wpc, wrun, wi, wres, wlast, wdl>>
qvars == <<queue, ticks, wpc, wrun, wi, wres, wlast, wdl, alerts, now, evals, done>>
svars == <<snap, calls>>
pvars == <<fin, fout>>
uvars == <<udb, ulock, upc, ucur>>
lvars == <<mu, cpc, cop, nstop>>
vars == <<rows, pending, ops, lastPub, hpc, hrule, hspec, todo, jobs, jobTab, stoppc,
          queue, ticks, wpc, wrun, wi, wres, wlast, wdl, alerts, now, evals, done,
          snap, calls, fin, fout, udb, ulock, upc, ucur, mu, cpc, cop, nstop>>

\* r.ctx.Done() is closed
cancelled == stoppc # "idle"

(***************************************************************************)
(* Registry: Schedule / Unschedule (each runs under r.mu, hence atomic)    *)
(***************************************************************************)
\* run numbers the JobRun the ticker is about to send (0 = none)
NewJob(ruleID, spec) ==
    [ruleID |-> ruleID, spec |-> spec, stop |-> 0, tpc |-> "select", run |-> 0]

\* close(job.stop); stop counts the closes of the channel
CloseStop(tab, i) == [tab EXCEPT ![i].stop = @ + 1]

ScheduleNoCancel(ruleID, spec) ==
    /\ Len(jobTab) < MaxJobs
    /\ jobTab' = Append(jobTab, NewJob(ruleID, spec))
    /\ jobs' = [jobs EXCEPT ![ruleID] = Len(jobTab) + 1]
    /\ UNCHANGED stoppc

ScheduleCancelOnly(ruleID, spec) ==
    /\ Len(jobTab) < MaxJobs
    /\ IF jobs[ruleID] # 0
         THEN /\ jobTab' = CloseStop(jobTab, jobs[ruleID])
              /\ jobs' = [jobs EXCEPT ![ruleID] = 0]
         ELSE /\ jobTab' = Append(jobTab, NewJob(ruleID, spec))
              /\ jobs' = [jobs EXCEPT ![ruleID] = Len(jobTab) + 1]
    /\ UNCHANGED stoppc

\* Schedule that also waits, under r.mu, for room on the queue
ScheduleWhenQueueHasRoom(ruleID, spec) ==
    /\ Len(queue) < QueueCap
    /\ Len(jobTab) < MaxJobs
    /\ jobTab' = Append(IF jobs[ruleID] # 0 THEN CloseStop(jobTab, jobs[ruleID]) ELSE jobTab,
                        NewJob(ruleID, spec))
    /\ jobs' = [jobs EXCEPT ![ruleID] = Len(jobTab) + 1]
    /\ UNCHANGED stoppc

Schedule(ruleID, spec) ==
    /\ Len(jobTab) < MaxJobs
    /\ jobTab' = Append(IF jobs[ruleID] # 0 THEN CloseStop(jobTab, jobs[ruleID]) ELSE jobTab,
                        NewJob(ruleID, spec))
    /\ jobs' = [jobs EXCEPT ![ruleID] = Len(jobTab) + 1]
    /\ UNCHANGED stoppc

UnscheduleNothing(ruleID) == UNCHANGED <<jobs, jobTab, stoppc>>

\* Unschedule that closes the stop signal and keeps the map entry
UnscheduleKeepsEntry(ruleID) ==
    /\ IF jobs[ruleID] # 0
         THEN /\ jobTab' = CloseStop(jobTab, jobs[ruleID])
              /\ UNCHANGED jobs
         ELSE UNCHANGED <<jobs, jobTab>>
    /\ UNCHANGED stoppc

Unschedule(ruleID) ==
    /\ IF jobs[ruleID] # 0
         THEN /\ jobTab' = CloseStop(jobTab, jobs[ruleID])
              /\ jobs' = [jobs EXCEPT ![ruleID] = 0]
         ELSE UNCHANGED <<jobs, jobTab>>
    /\ UNCHANGED stoppc

\* Stop, first statement: r.cancel()
Stop_cancel ==
    /\ stoppc = "idle"
    /\ stoppc' = "lock"
    /\ UNCHANGED <<jobs, jobTab, cvars, qvars, svars, pvars, uvars, lvars>>

\* Stop, under r.mu: close every registered job's stop, reset the map
Stop_closeJobs ==
    /\ stoppc = "lock"
    /\ stoppc' = "done"
    /\ jobTab' = [i \in 1..Len(jobTab) |->
                    IF \E id \in Rules : jobs[id] = i
                      THEN [jobTab[i] EXCEPT !.stop = @ + 1]
                      ELSE jobTab[i]]
    /\ jobs' = [id \in Rules |-> 0]
    /\ UNCHANGED <<cvars, qvars, svars, pvars, uvars, lvars>>

\* the reconciler's calls, seen from the registry
callSchedule(ruleID, spec) ==
    /\ Schedule(ruleID, spec)
    /\ UNCHANGED <<cvars, qvars, svars, pvars, uvars, lvars>>

callUnschedule(ruleID) ==
    /\ jobs[ruleID] # 0
    /\ Unschedule(ruleID)
    /\ UNCHANGED <<cvars, qvars, svars, pvars, uvars, lvars>>

(***************************************************************************)
(* runTicker(job), one goroutine per Job ever scheduled                    *)
(***************************************************************************)
JobRun(ruleID, spec, id) == [ruleID |-> ruleID, spec |-> spec, id |-> id]
NoRun == JobRun("r1", ZeroSpec, 0)

TickerAt(j, pc) == j \in 1..Len(jobTab) /\ jobTab[j].tpc = pc

\* select chose case <-ticker.C
runTicker_tick(j) ==
    /\ TickerAt(j, "select")
    /\ ticks < MaxTicks
    /\ ticks' = ticks + 1
    /\ jobTab' = [jobTab EXCEPT ![j].tpc = "send", ![j].run = ticks + 1]
    /\ UNCHANGED <<jobs, stoppc, queue, wvars, alerts, now, evals, done, cvars, svars, pvars, uvars, lvars>>

\* r.queue <- JobRun{...}: completes once the buffer has room
runTicker_send(j) ==
    /\ TickerAt(j, "send")
    /\ Len(queue) < QueueCap
    /\ queue' = Append(queue, JobRun(jobTab[j].ruleID, jobTab[j].spec, jobTab[j].run))
    /\ jobTab' = [jobTab EXCEPT ![j].tpc = "select", ![j].run = 0]
    /\ UNCHANGED <<jobs, stoppc, ticks, wvars, alerts, now, evals, done, cvars, svars, pvars, uvars, lvars>>

\* select chose case <-job.stop
runTicker_stop(j) ==
    /\ TickerAt(j, "select")
    /\ jobTab[j].stop > 0
    /\ jobTab' = [jobTab EXCEPT ![j].tpc = "exited"]
    /\ UNCHANGED <<jobs, stoppc, qvars, cvars, svars, pvars, uvars, lvars>>

\* select chose case <-r.ctx.Done()
runTicker_done(j) ==
    /\ TickerAt(j, "select")
    /\ cancelled
    /\ jobTab' = [jobTab EXCEPT ![j].tpc = "exited"]
    /\ UNCHANGED <<jobs, stoppc, qvars, cvars, svars, pvars, uvars, lvars>>

runTicker(j) ==
    \/ runTicker_tick(j)
    \/ runTicker_send(j)
    \/ runTicker_stop(j)
    \/ runTicker_done(j)

(***************************************************************************)
(* worker and execute(run)                                                 *)
(***************************************************************************)
NoResult == [err |-> FALSE, hit |-> FALSE, status |-> "", violations |-> <<>>]
NoLast == [ok |-> FALSE, ts |-> 0]

\* ctx of execute: context.WithTimeout(context.Background(), r.jobTimeout).
\* Once the deadline has fired the record tells which call it interrupted.
Armed == [fired |-> FALSE, param |-> 0, pc |-> ""]

\* ctx is already done when the call at position pc is issued
CtxDone(w, pc) == wdl[w].fired /\ ~(wdl[w].pc = pc /\ wdl[w].param = wi[w])

\* the deadline fired while evaluateParameter was running for parameter i
DeadlineDuringEvaluate(w) ==
    wdl[w].fired /\ wdl[w].pc = "evaluateParameter" /\ wdl[w].param = wi[w]

\* an adapter call issued on a done ctx fails with the ctx error
AdapterCall(ctxDone, resp) == IF ctxDone THEN ErrResp ELSE resp

\* r.Store.Pool.QueryRow / Exec on a done ctx fail without reaching the table
LookupFailed(ctxDone, failed) == ctxDone \/ failed

CreateAlertIgnoresDeadline(ctxDone, stored) == stored

CreateAlertStored(ctxDone, stored) == ~ctxDone /\ stored

AlertKey(run, param) ==
    [ruleID |-> run.ruleID, parameterName |-> param.parameterName,
     detectorType |-> param.detector.type]

\* newest alert timestamp of the key; ok = FALSE when no row matches
GetLastAlertForKey(key) ==
    LET hits == {i \in 1..Len(alerts) : alerts[i].key = key} IN
    IF hits = {} THEN NoLast
    ELSE [ok |-> TRUE,
          ts |-> alerts[CHOOSE i \in hits : \A k \in hits : alerts[k].ts <= alerts[i].ts].ts]

\* the worker leaves parameter i: next parameter, or execute returns
Advance(w, i) ==
    IF i < Len(wrun[w].spec.parameters)
      THEN /\ wi' = [wi EXCEPT ![w] = i + 1]
           /\ wpc' = [wpc EXCEPT ![w] = "evaluateParameter"]
           /\ UNCHANGED <<wrun, done>>
      ELSE /\ wi' = [wi EXCEPT ![w] = 0]
           /\ wpc' = [wpc EXCEPT ![w] = "select"]
           /\ done' = done \cup {[run |-> wrun[w].id, n |-> Len(wrun[w].spec.parameters)]}
           /\ wrun' = [wrun EXCEPT ![w] = NoRun]

\* after a failed evaluation the loop goes on with the next parameter
NextOnErrorReturn(i, n) == n

NextOnError(i, n) == i

\* select chose case run := <-r.queue
worker_receive(w) ==
    /\ wpc[w] = "select"
    /\ queue # <<>>
    /\ queue' = Tail(queue)
    /\ IF normalizeParameters(Head(queue).spec) = <<>>
         THEN /\ done' = done \cup {[run |-> Head(queue).id, n |-> 0]}
              /\ UNCHANGED <<wpc, wrun, wi>>
         ELSE /\ wrun' = [wrun EXCEPT ![w] = Head(queue)]
              /\ wi' = [wi EXCEPT ![w] = 1]
              /\ wpc' = [wpc EXCEPT ![w] = "evaluateParameter"]
              /\ UNCHANGED done
    /\ wdl' = [wdl EXCEPT ![w] = Armed]
    /\ UNCHANGED <<ticks, wres, wlast, alerts, now, evals, rvars, cvars, svars, pvars, uvars, lvars>>

\* select chose case <-r.ctx.Done()
worker_done(w) ==
    /\ wpc[w] = "select"
    /\ cancelled
    /\ wpc' = [wpc EXCEPT ![w] = "exited"]
    /\ UNCHANGED <<queue, ticks, wrun, wi, wres, wlast, wdl, alerts, now, evals, done,
                   rvars, cvars, svars, pvars, uvars, lvars>>

\* result, err := r.evaluateParameter(...); if err != nil || !result.Hit { continue }
execute_evaluateParameter(w) ==
    /\ wpc[w] = "evaluateParameter"
    /\ \E resp \in Responses :
         LET params == normalizeParameters(wrun[w].spec)
             res == evaluateParameter(params[wi[w]],
                                      AdapterCall(CtxDone(w, "evaluateParameter"), resp))
         IN  /\ wres' = [wres EXCEPT ![w] = res]
             /\ evals' = evals \cup {[run |-> wrun[w].id, param |-> wi[w], err |-> res.err,
                                       hit |-> ~res.err /\ res.hit,
                                       deadline |-> DeadlineDuringEvaluate(w)]}
             /\ IF res.err THEN Advance(w, NextOnError(wi[w], Len(params)))
                ELSE IF ~res.hit THEN Advance(w, wi[w])
                ELSE /\ wpc' = [wpc EXCEPT ![w] =
                                  IF wrun[w].spec.cooldownSeconds > 0
                                    THEN "GetLastAlertForKey" ELSE "CreateAlert"]
                     /\ UNCHANGED <<wrun, wi, done>>
    /\ UNCHANGED <<queue, ticks, wlast, wdl, alerts, now, rvars, cvars, svars, pvars, uvars, lvars>>

\* lastAlert, err := r.repo.GetLastAlertForKey(...);
\* if err == nil && monitor.WithinCooldown(lastAlert, cooldown) { continue }
execute_GetLastAlertForKey(w) ==
    /\ wpc[w] = "GetLastAlertForKey"
    /\ \E failed \in BOOLEAN :
         LET params == normalizeParameters(wrun[w].spec)
             last == IF LookupFailed(CtxDone(w, "GetLastAlertForKey"), failed) THEN NoLast
                     ELSE GetLastAlertForKey(AlertKey(wrun[w], params[wi[w]]))
         IN  /\ wlast' = [wlast EXCEPT ![w] = last]
             /\ IF last.ok /\ WithinCooldown(last.ts, wrun[w].spec.cooldownSeconds, now)
                  THEN Advance(w, wi[w])
                  ELSE /\ wpc' = [wpc EXCEPT ![w] = "CreateAlert"]
                       /\ UNCHANGED <<wrun, wi, done>>
    /\ UNCHANGED <<queue, ticks, wres, wdl, alerts, now, evals, rvars, cvars, svars, pvars, uvars, lvars>>

\* _ = r.repo.CreateAlert(ctx, AlertRecord{TSUTC: time.Now().UTC(), ...})
execute_CreateAlert(w) ==
    /\ wpc[w] = "CreateAlert"
    /\ \E stored \in BOOLEAN :
         LET params == normalizeParameters(wrun[w].spec) IN
         alerts' = IF CreateAlertStored(CtxDone(w, "CreateAlert"), stored)
                     THEN Append(alerts, [key |-> AlertKey(wrun[w], params[wi[w]]), ts |-> now,
                                          run |-> wrun[w].id, param |-> wi[w]])
                     ELSE alerts
    /\ Advance(w, wi[w])
    /\ wlast' = [wlast EXCEPT ![w] = NoLast]
    /\ UNCHANGED <<queue, ticks, wres, wdl, now, evals, rvars, cvars, svars, pvars, uvars, lvars>>

\* the deadline of the run's ctx fires while execute is at one of its calls
jobTimeout(w) ==
    /\ wpc[w] \in {"evaluateParameter", "GetLastAlertForKey", "CreateAlert"}
    /\ ~wdl[w].fired
    /\ wdl' = [wdl EXCEPT ![w] = [fired |-> TRUE, param |-> wi[w], pc |-> wpc[w]]]
    /\ UNCHANGED <<queue, ticks, wpc, wrun, wi, wres, wlast, alerts, now, evals, done,
                   rvars, cvars, svars, pvars, uvars, lvars>>

worker(w) ==
    \/ worker_receive(w)
    \/ worker_done(w)
    \/ execute_evaluateParameter(w)
    \/ execute_GetLastAlertForKey(w)
    \/ execute_CreateAlert(w)

\* time passes
ClockAdvance ==
    /\ now < MaxTime
    /\ now' = now + 1
    /\ UNCHANGED <<queue, ticks, wvars, alerts, evals, done, rvars, cvars, svars, pvars, uvars, lvars>>

(***************************************************************************)
(* Rule store writes of the scheduler                                      *)
(***************************************************************************)
UpdateRuleStatus(id, status) ==
    rows' = IF rows[id].exists THEN [rows EXCEPT ![id].status = status] ELSE rows

(***************************************************************************)
(* Rule service: operator requests.  Each writes the row, then publishes.  *)
(***************************************************************************)
Publish(subject, id) ==
    /\ pending' = [pending EXCEPT ![subject] = Append(@, id)]
    /\ lastPub' = [lastPub EXCEPT ![id] = [subject |-> subject, scheduled |-> jobs[id] # 0]]

\* POST /rules (handleRulesCreate): the document was statically validated
handleRulesCreate(id, json, enabled) ==
    /\ ops < MaxOps
    /\ ~rows[id].exists
    /\ rows' = [rows EXCEPT ![id] = [exists |-> TRUE, enabled |-> enabled,
                                      status |-> "DRAFT", json |-> json]]
    /\ Publish("rule.created", id)
    /\ ops' = ops + 1
    /\ UNCHANGED <<hpc, hrule, hspec, todo, rvars, qvars, svars, pvars, uvars, lvars>>

\* PUT /rules/{id} (handleRuleUpdateByID)
handleRuleUpdateByID(id, json, enabled) ==
    /\ ops < MaxOps
    /\ rows[id].exists
    /\ rows' = [rows EXCEPT ![id] = [exists |-> TRUE, enabled |-> enabled,
                                      status |-> "DRAFT", json |-> json]]
    /\ Publish("rule.updated", id)
    /\ ops' = ops + 1
    /\ UNCHANGED <<hpc, hrule, hspec, todo, rvars, qvars, svars, pvars, uvars, lvars>>

SetRuleEnabled(id, enabled, status) ==
    rows' = IF rows[id].exists
              THEN [rows EXCEPT ![id].enabled = enabled, ![id].status = status]
              ELSE rows

handleRuleEnable(id) ==
    /\ ops < MaxOps
    /\ SetRuleEnabled(id, TRUE, "DRAFT")
    /\ Publish("rule.enabled", id)
    /\ ops' = ops + 1
    /\ UNCHANGED <<hpc, hrule, hspec, todo, rvars, qvars, svars, pvars, uvars, lvars>>

handleRuleDisable(id) ==
    /\ ops < MaxOps
    /\ SetRuleEnabled(id, FALSE, "DISABLED")
    /\ Publish("rule.disabled", id)
    /\ ops' = ops + 1
    /\ UNCHANGED <<hpc, hrule, hspec, todo, rvars, qvars, svars, pvars, uvars, lvars>>

\* the row is removed from the rules table and rule.deleted is published
DeleteRule(id) ==
    /\ ops < MaxOps
    /\ rows[id].exists
    /\ rows' = [rows EXCEPT ![id] = NoRow]
    /\ Publish("rule.deleted", id)
    /\ ops' = ops + 1
    /\ UNCHANGED <<hpc, hrule, hspec, todo, rvars, qvars, svars, pvars, uvars, lvars>>

(***************************************************************************)
(* Scheduler: event subscriptions and reconcile, both calling processRule  *)
(***************************************************************************)
Begin(h, id) ==
    /\ hpc' = [hpc EXCEPT ![h] = "GetRule"]
    /\ hrule' = [hrule EXCEPT ![h] = id]

Return(h) ==
    /\ hpc' = [hpc EXCEPT ![h] = "idle"]
    /\ hrule' = [hrule EXCEPT ![h] = "r1"]
    /\ hspec' = [hspec EXCEPT ![h] = ZeroSpec]

\* one subscription delivers its messages one at a time, in order
subscribeEvents(s) ==
    /\ hpc[s] = "idle"
    /\ pending[s] # <<>>
    /\ Begin(s, Head(pending[s]))
    /\ pending' = [pending EXCEPT ![s] = Tail(@)]
    /\ UNCHANGED <<rows, ops, lastPub, hspec, todo, rvars, qvars, svars, pvars, uvars, lvars>>

ListEnabledRules == {id \in Rules : rows[id].exists /\ rows[id].enabled}

\* reconcile: rulesList, err := repo.ListEnabledRules(ctx)
reconcile ==
    /\ ops < MaxOps
    /\ hpc["reload"] = "idle"
    /\ todo = {}
    /\ todo' = ListEnabledRules
    /\ ops' = ops + 1
    /\ UNCHANGED <<rows, pending, lastPub, hpc, hrule, hspec, rvars, qvars, svars, pvars, uvars, lvars>>

\* reconcile: for _, rec := range rulesList { processRule(rec.ID) }
reconcileNext ==
    /\ hpc["reload"] = "idle"
    /\ \E id \in todo :
         /\ todo' = todo \ {id}
         /\ Begin("reload", id)
    /\ UNCHANGED <<rows, pending, ops, lastPub, hspec, rvars, qvars, svars, pvars, uvars, lvars>>

(***************************************************************************)
(* processRule, one action per call on shared state (store or registry).   *)
(* GetRule is followed by the decode and the lookups against the           *)
(* connection table, adapter registry and source database.                 *)
(***************************************************************************)
processRule_GetRule(h) ==
    /\ hpc[h] = "GetRule"
    /\ LET rec == rows[hrule[h]] IN
         IF ~rec.exists THEN
            Return(h)
         ELSE IF ~rec.enabled THEN
            /\ hpc' = [hpc EXCEPT ![h] = "UnscheduleDisabled"]
            /\ UNCHANGED <<hrule, hspec>>
         ELSE IF ~rec.json.ok THEN
            /\ hpc' = [hpc EXCEPT ![h] = "InvalidJSON"]
            /\ UNCHANGED <<hrule, hspec>>
         ELSE
            /\ hspec' = [hspec EXCEPT ![h] = rec.json.spec]
            /\ hpc' = [hpc EXCEPT ![h] =
                         IF ResolveFailure(rec.json.spec) = "" THEN "UpdateActive"
                         ELSE "UpdateInvalid"]
            /\ UNCHANGED hrule
    /\ UNCHANGED <<rows, pending, ops, lastPub, todo, rvars, qvars, svars, pvars, uvars, lvars>>

\* if !rec.Enabled { reg.Unschedule(ruleID); return nil }
processRule_UnscheduleDisabled(h) ==
    /\ hpc[h] = "UnscheduleDisabled"
    /\ Unschedule(hrule[h])
    /\ Return(h)
    /\ UNCHANGED <<rows, pending, ops, lastPub, todo, qvars, svars, pvars, uvars, lvars>>

\* json.Unmarshal failed: UpdateRuleStatus(INVALID); return err
processRule_InvalidJSON(h) ==
    /\ hpc[h] = "InvalidJSON"
    /\ UpdateRuleStatus(hrule[h], "INVALID")
    /\ Return(h)
    /\ UNCHANGED <<pending, ops, lastPub, todo, rvars, qvars, svars, pvars, uvars, lvars>>

\* a lookup or the runtime validation failed: UpdateRuleStatus(INVALID) ...
processRule_UpdateInvalid(h) ==
    /\ hpc[h] = "UpdateInvalid"
    /\ UpdateRuleStatus(hrule[h], "INVALID")
    /\ hpc' = [hpc EXCEPT ![h] = "UnscheduleInvalid"]
    /\ UNCHANGED <<pending, ops, lastPub, hrule, hspec, todo, rvars, qvars, svars, pvars, uvars, lvars>>

\* ... reg.Unschedule(ruleID); return err
processRule_UnscheduleInvalid(h) ==
    /\ hpc[h] = "UnscheduleInvalid"
    /\ Unschedule(hrule[h])
    /\ Return(h)
    /\ UNCHANGED <<rows, pending, ops, lastPub, todo, qvars, svars, pvars, uvars, lvars>>

\* validation passed: UpdateRuleStatus(ACTIVE) ...
processRule_UpdateActive(h) ==
    /\ hpc[h] = "UpdateActive"
    /\ UpdateRuleStatus(hrule[h], "ACTIVE")
    /\ hpc' = [hpc EXCEPT ![h] = "Schedule"]
    /\ UNCHANGED <<pending, ops, lastPub, hrule, hspec, todo, rvars, qvars, svars, pvars, uvars, lvars>>

\* ... reg.Schedule(ruleID, spec, adapter); return nil
processRule_Schedule(h) ==
    /\ hpc[h] = "Schedule"
    /\ Schedule(hrule[h], hspec[h])
    /\ Return(h)
    /\ UNCHANGED <<rows, pending, ops, lastPub, todo, qvars, svars, pvars, uvars, lvars>>

processRule(h) ==
    \/ processRule_GetRule(h)
    \/ processRule_UnscheduleDisabled(h)
    \/ processRule_InvalidJSON(h)
    \/ processRule_UpdateInvalid(h)
    \/ processRule_UnscheduleInvalid(h)
    \/ processRule_UpdateActive(h)
    \/ processRule_Schedule(h)

\* what a caller can observe of a rule: its status and its job's policy
Observed(id) ==
    [status |-> IF rows[id].exists THEN rows[id].status ELSE "",
     scheduled |-> jobs[id] # 0,
     policy |-> IF jobs[id] # 0 THEN jobTab[jobs[id]].spec ELSE ZeroSpec]

\* process(ruleId) invoked directly, while nothing else runs
callProcessRule(id) ==
    /\ calls < 2
    /\ hpc["reload"] = "idle"
    /\ calls' = calls + 1
    /\ snap' = Observed(id)
    /\ Begin("reload", id)
    /\ UNCHANGED <<rows, pending, ops, lastPub, hspec, todo, rvars, qvars, pvars, uvars, lvars>>

(***************************************************************************)
(* Initial conditions                                                      *)
(***************************************************************************)
InitRows == {NoRow} \cup
            {[exists |-> TRUE, enabled |-> e, status |-> IF e THEN "DRAFT" ELSE "DISABLED", json |-> j] :
                e \in BOOLEAN, j \in {[ok |-> TRUE, spec |-> Good10], Malformed}}

HandlersIdle ==
    /\ pending = [s \in Subjects |-> <<>>]
    /\ ops = 0
    /\ lastPub = [id \in Rules |-> [subject |-> "", scheduled |-> FALSE]]
    /\ hpc = [h \in Handlers |-> "idle"]
    /\ hrule = [h \in Handlers |-> "r1"]
    /\ hspec = [h \in Handlers |-> ZeroSpec]
    /\ todo = {}
    /\ snap = Observed("r1")
    /\ calls = 0

RegistryEmpty ==
    /\ jobs = [id \in Rules |-> 0]
    /\ jobTab = <<>>
    /\ stoppc = "idle"

WorkersIdle ==
    /\ ticks = 0
    /\ wpc = [w \in Workers |-> "select"]
    /\ wrun = [w \in Workers |-> NoRun]
    /\ wi = [w \in Workers |-> 0]
    /\ wres = [w \in Workers |-> NoResult]
    /\ wlast = [w \in Workers |-> NoLast]
    /\ wdl = [w \in Workers |-> Armed]
    /\ alerts = <<>>
    /\ now = 0
    /\ evals = {}
    /\ done = {}

\* no function under study has been applied
NotYet == [called |-> FALSE]
KernelIdle ==
    /\ fin = NotYet
    /\ fout = NotYet

\* every sequence over S of length 0..n
SeqsUpTo(S, n) == UNION {[1..k -> S] : k \in 0..n}

\* a jsonb column value: SQL NULL / empty, or a JSON array of strings
NullRaw == [null |-> TRUE, items |-> <<>>]
jsonMarshal(list) == [null |-> FALSE, items |-> list]
decodeStringArray(raw) == IF raw.null THEN <<>> ELSE raw.items

Callers == {1, 2}

\* r.mu is unlocked and no caller is inside a registry method
NoCall == [op |-> "", ruleID |-> "r1", spec |-> ZeroSpec]
RegistryUnlocked ==
    /\ mu = 0
    /\ cpc = [c \in Callers |-> "idle"]
    /\ cop = [c \in Callers |-> NoCall]
    /\ nstop = 0

\* no UpdateColumns call is in progress
UnitsIdle ==
    /\ udb = NullRaw
    /\ ulock = 0
    /\ upc = [c \in Callers |-> "idle"]
    /\ ucur = [c \in Callers |-> <<>>]

ActiveRow(spec) == [exists |-> TRUE, enabled |-> TRUE, status |-> "ACTIVE",
                    json |-> [ok |-> TRUE, spec |-> spec]]

(***************************************************************************)
(* Spec: the scheduler's control plane next to a running rule service.     *)
(* At start the registry is empty and the rules table holds whatever was   *)
(* persisted before.                                                       *)
(***************************************************************************)
Init ==
    /\ rows \in [Rules -> InitRows]
    /\ RegistryEmpty
    /\ queue = <<>>
    /\ WorkersIdle
    /\ HandlersIdle
    /\ KernelIdle
    /\ UnitsIdle
    /\ RegistryUnlocked

Next ==
    \/ \E id \in Rules, j \in OpJSONs, e \in BOOLEAN : handleRulesCreate(id, j, e)
    \/ \E id \in Rules, j \in OpJSONs, e \in BOOLEAN : handleRuleUpdateByID(id, j, e)
    \/ \E id \in Rules : handleRuleEnable(id)
    \/ \E id \in Rules : handleRuleDisable(id)
    \/ \E id \in Rules : DeleteRule(id)
    \/ \E s \in Subjects : subscribeEvents(s)
    \/ reconcile
    \/ reconcileNext
    \/ \E h \in Handlers : processRule(h)

Spec == Init /\ [][Next]_vars

(***************************************************************************)
(* SeqSpec: process("r1") invoked twice in a row with nothing else         *)
(* running, from any stored row and any registry content.                  *)
(***************************************************************************)
SeqRows == {NoRow} \cup RuleRows

SeqInit ==
    /\ \E row \in SeqRows : rows = [id \in Rules |-> IF id = "r1" THEN row ELSE NoRow]
    /\ \E prior \in {ZeroSpec, Good10, Good20} :
         /\ jobTab = IF prior = ZeroSpec THEN <<>> ELSE <<NewJob("r1", prior)>>
         /\ jobs = [id \in Rules |-> IF id = "r1" /\ prior # ZeroSpec THEN 1 ELSE 0]
    /\ stoppc = "idle"
    /\ queue = <<>>
    /\ WorkersIdle
    /\ HandlersIdle
    /\ KernelIdle
    /\ UnitsIdle
    /\ RegistryUnlocked

SeqNext ==
    \/ callProcessRule("r1")
    \/ processRule("reload")

SeqSpec == SeqInit /\ [][SeqNext]_vars

(***************************************************************************)
(* RunSpec: the registry at run time.  Validated rules are scheduled and   *)
(* unscheduled, tickers enqueue runs, workers execute them, Stop is        *)
(* called once.  FairRun adds what the Go runtime guarantees: a goroutine  *)
(* that can proceed does, a blocked send completes once the buffer has     *)
(* room, and a select with a ready case that stays or keeps becoming ready *)
(* eventually takes it.  Timers give no such guarantee.                    *)
(***************************************************************************)
RunningWorkers == 1..RunWorkers

RunInit ==
    /\ rows = [id \in Rules |-> ActiveRow(Cool10)]
    /\ RegistryEmpty
    /\ queue = <<>>
    /\ ticks = 0
    /\ wpc = [w \in Workers |-> IF w \in RunningWorkers THEN "select" ELSE "none"]
    /\ wrun = [w \in Workers |-> NoRun]
    /\ wi = [w \in Workers |-> 0]
    /\ wres = [w \in Workers |-> NoResult]
    /\ wlast = [w \in Workers |-> NoLast]
    /\ wdl = [w \in Workers |-> Armed]
    /\ alerts = <<>>
    /\ now = 0
    /\ evals = {}
    /\ done = {}
    /\ HandlersIdle
    /\ KernelIdle
    /\ UnitsIdle
    /\ RegistryUnlocked

RunNext ==
    \/ \E id \in Rules : callSchedule(id, Cool10)
    \/ \E id \in Rules : callUnschedule(id)
    \/ Stop_cancel
    \/ Stop_closeJobs
    \/ \E j \in 1..MaxJobs : runTicker(j)
    \/ \E w \in RunningWorkers : worker(w)

RunSpec == RunInit /\ [][RunNext]_vars

RunFairness ==
    /\ WF_vars(Stop_closeJobs)
    /\ \A j \in 1..MaxJobs :
         /\ WF_vars(runTicker_send(j))
         /\ SF_vars(runTicker_stop(j))
         /\ SF_vars(runTicker_done(j))
    /\ \A w \in RunningWorkers :
         /\ SF_vars(worker_receive(w))
         /\ SF_vars(worker_done(w))
         /\ WF_vars(execute_evaluateParameter(w))
         /\ WF_vars(execute_GetLastAlertForKey(w))
         /\ WF_vars(execute_CreateAlert(w))

FairRun == RunSpec /\ RunFairness

(***************************************************************************)
(* ExecSpec: the workers execute a backlog while time passes.  Every       *)
(* worker has just received a run of rule r1 and the queue is full of runs *)
(* of rule r2.                                                             *)
(***************************************************************************)
MaxRuns == NumWorkers + QueueCap

ExecInit ==
    /\ \E s1 \in ExecSpecs, s2 \in ExecSpecs :
         /\ rows = [id \in Rules |-> IF id = "r1" THEN ActiveRow(s1) ELSE ActiveRow(s2)]
         /\ wrun = [w \in Workers |-> JobRun("r1", s1, w)]
         /\ queue = [i \in 1..QueueCap |-> JobRun("r2", s2, NumWorkers + i)]
    /\ wpc = [w \in Workers |-> "evaluateParameter"]
    /\ wi = [w \in Workers |-> 1]
    /\ wres = [w \in Workers |-> NoResult]
    /\ wlast = [w \in Workers |-> NoLast]
    /\ wdl = [w \in Workers |-> Armed]
    /\ ticks = 0
    /\ alerts = <<>>
    /\ now = 0
    /\ evals = {}
    /\ done = {}
    /\ RegistryEmpty
    /\ HandlersIdle
    /\ KernelIdle
    /\ UnitsIdle
    /\ RegistryUnlocked

ExecNext ==
    \/ \E w \in Workers : worker_receive(w)
    \/ \E w \in Workers : execute_evaluateParameter(w)
    \/ \E w \in Workers : execute_GetLastAlertForKey(w)
    \/ \E w \in Workers : execute_CreateAlert(w)
    \/ ClockAdvance

ExecSpec == ExecInit /\ [][ExecNext]_vars

(***************************************************************************)
(* TickSpec: one scheduled rule with two parameters and a cooldown, its    *)
(* ticker and the workers, with the deadline of execute's ctx firing at    *)
(* any of execute's calls.  The rule stays scheduled and the registry is   *)
(* not stopped.  FairTick adds the Go runtime's guarantees for the send,   *)
(* the receive and the steps of execute; timers and the deadline get none. *)
(***************************************************************************)
TickInit ==
    /\ rows = [id \in Rules |-> ActiveRow(CoolA)]
    /\ jobs = [id \in Rules |-> IF id = "r1" THEN 1 ELSE 0]
    /\ jobTab = <<NewJob("r1", CoolA)>>
    /\ stoppc = "idle"
    /\ queue = <<>>
    /\ ticks = 0
    /\ wpc = [w \in Workers |-> IF w \in RunningWorkers THEN "select" ELSE "none"]
    /\ wrun = [w \in Workers |-> NoRun]
    /\ wi = [w \in Workers |-> 0]
    /\ wres = [w \in Workers |-> NoResult]
    /\ wlast = [w \in Workers |-> NoLast]
    /\ wdl = [w \in Workers |-> Armed]
    /\ alerts = <<>>
    /\ now = 0
    /\ evals = {}
    /\ done = {}
    /\ HandlersIdle
    /\ KernelIdle
    /\ UnitsIdle
    /\ RegistryUnlocked

TickNext ==
    \/ runTicker_tick(1)
    \/ runTicker_send(1)
    \/ \E w \in RunningWorkers : worker_receive(w)
    \/ \E w \in RunningWorkers : execute_evaluateParameter(w)
    \/ \E w \in RunningWorkers : execute_GetLastAlertForKey(w)
    \/ \E w \in RunningWorkers : execute_CreateAlert(w)
    \/ \E w \in RunningWorkers : jobTimeout(w)
    \/ ClockAdvance

TickSpec == TickInit /\ [][TickNext]_vars

TickFairness ==
    /\ WF_vars(runTicker_send(1))
    /\ WF_vars(\E w \in RunningWorkers : worker_receive(w))
    /\ \A w \in RunningWorkers :
         /\ WF_vars(execute_evaluateParameter(w))
         /\ WF_vars(execute_GetLastAlertForKey(w))
         /\ WF_vars(execute_CreateAlert(w))

FairTick == TickSpec /\ TickFairness

(***************************************************************************)
(* ColSpec: two UpdateColumns calls on one machine unit, each a            *)
(* transaction of updateMachineUnitJSONArrays: Begin, SELECT ... FOR       *)
(* UPDATE, applyAddRemove, UPDATE, Commit.  The row lock taken by the      *)
(* SELECT is held until Commit or Rollback; any statement can fail (the    *)
(* 5 s ctx timeout, a database error), which rolls the transaction back.   *)
(***************************************************************************)
Columns == {"col0", "col1", "col2"}
Range(s) == {s[i] : i \in 1..Len(s)}

RECURSIVE AppendNew(_, _, _)
AppendNew(result, values, removeSet) ==
    IF values = <<>> THEN result
    ELSE IF Head(values) \in removeSet \/ Head(values) \in Range(result)
      THEN AppendNew(result, Tail(values), removeSet)
      ELSE AppendNew(Append(result, Head(values)), Tail(values), removeSet)

applyAddRemove(current, add, remove) ==
    AppendNew(AppendNew(<<>>, current, Range(remove)), add, Range(remove))

\* the row is locked by another transaction
LockedByOtherIgnored(c) == FALSE

LockedByOther(c) == ulock \notin {0, c}

\* add / remove arguments of the two calls: each adds its own column
ColumnArgs ==
    {[c \in Callers |-> [add |-> <<IF c = 1 THEN "col1" ELSE "col2">>, remove |-> r[c]]] :
        r \in [Callers -> {<<>>, <<"col0">>}]}

ColInit ==
    /\ rows = [id \in Rules |-> NoRow]
    /\ RegistryEmpty
    /\ queue = <<>>
    /\ WorkersIdle
    /\ HandlersIdle
    /\ fin \in ColumnArgs
    /\ fout = NotYet
    /\ udb \in {NullRaw} \cup {jsonMarshal(s) : s \in SeqsUpTo(Columns, MaxCols)}
    /\ ulock = 0
    /\ upc = [c \in Callers |-> "idle"]
    /\ ucur = [c \in Callers |-> <<>>]
    /\ RegistryUnlocked

ColFrame == UNCHANGED <<cvars, rvars, qvars, svars, pvars, lvars>>

\* tx, err := r.Store.Pool.Begin(ctx)
UpdateColumns_Begin(c) ==
    /\ upc[c] = "idle"
    /\ upc' = [upc EXCEPT ![c] = "select"]
    /\ UNCHANGED <<udb, ulock, ucur>>
    /\ ColFrame

\* SELECT selected_columns ... FOR UPDATE, decodeStringArray: waits while
\* another transaction holds the row lock, then reads the committed value
UpdateColumns_SelectForUpdate(c) ==
    /\ upc[c] = "select"
    /\ ~LockedByOther(c)
    /\ ulock' = c
    /\ ucur' = [ucur EXCEPT ![c] = decodeStringArray(udb)]
    /\ upc' = [upc EXCEPT ![c] = "update"]
    /\ UNCHANGED udb
    /\ ColFrame

\* applyAddRemove, json.Marshal, UPDATE ... RETURNING (not yet committed)
UpdateColumns_Update(c) ==
    /\ upc[c] = "update"
    /\ ucur' = [ucur EXCEPT ![c] = applyAddRemove(ucur[c], fin[c].add, fin[c].remove)]
    /\ upc' = [upc EXCEPT ![c] = "commit"]
    /\ UNCHANGED <<udb, ulock>>
    /\ ColFrame

\* tx.Commit(ctx); return unit, nil
UpdateColumns_Commit(c) ==
    /\ upc[c] = "commit"
    /\ udb' = jsonMarshal(ucur[c])
    /\ ulock' = IF ulock = c THEN 0 ELSE ulock
    /\ upc' = [upc EXCEPT ![c] = "ok"]
    /\ UNCHANGED ucur
    /\ ColFrame

\* a statement returns an error (ctx deadline while waiting for the lock,
\* connection error): return MachineUnit{}, err; deferred tx.Rollback
UpdateColumns_Error(c) ==
    /\ upc[c] \in {"select", "update", "commit"}
    /\ ulock' = IF ulock = c THEN 0 ELSE ulock
    /\ upc' = [upc EXCEPT ![c] = "failed"]
    /\ UNCHANGED <<udb, ucur>>
    /\ ColFrame

ColNext ==
    \/ \E c \in Callers : UpdateColumns_Begin(c)
    \/ \E c \in Callers : UpdateColumns_SelectForUpdate(c)
    \/ \E c \in Callers : UpdateColumns_Update(c)
    \/ \E c \in Callers : UpdateColumns_Commit(c)
    \/ \E c \in Callers : UpdateColumns_Error(c)

ColSpec == ColInit /\ [][ColNext]_vars

(***************************************************************************)
(* Specifications of single functions: the argument is drawn at the start, *)
(* one step applies the function and records what it returned.  Nothing    *)
(* else in the system moves.                                               *)
(***************************************************************************)
Quiescent ==
    /\ rows = [id \in Rules |-> NoRow]
    /\ RegistryEmpty
    /\ queue = <<>>
    /\ WorkersIdle
    /\ HandlersIdle
    /\ UnitsIdle
    /\ RegistryUnlocked

Returns(value) ==
    /\ fout = NotYet
    /\ fout' = [called |-> TRUE, value |-> value]
    /\ UNCHANGED <<fin, cvars, rvars, qvars, svars, uvars, lvars>>

(***************************************************************************)
(* DetSpec: the detector kernel.  Each detector function is applied to     *)
(* sample lists of up to MaxSamples values and to configurations with and  *)
(* without their optional parts.                                           *)
(***************************************************************************)
SampleValues == {1, 5, 9}
SampleLists == SeqsUpTo(SampleValues, MaxSamples)
Subgroups == {<<1, 2>>, <<1, 9>>}
GroupLists == SeqsUpTo(Subgroups, MaxSamples)

\* Sample{TS, Value} lists: timestamps 10 s apart, or all the same
TimedLists ==
    {[i \in 1..Len(vs) |-> [ts |-> IF rising THEN 10 * i ELSE 7, value |-> vs[i]]] :
        vs \in SampleLists, rising \in BOOLEAN}

SpecLimitSpecs ==
    {[present |-> TRUE, mode |-> m, epsilon |-> 0, specLimits |-> s, controlLimits |-> c] :
        m \in {"", "control", "both"},
        s \in {NoBounds, [present |-> TRUE, hi |-> Limit(6), lo |-> Unset],
               [present |-> TRUE, hi |-> Limit(6), lo |-> Limit(2)],
               [present |-> TRUE, hi |-> Unset, lo |-> Unset]},
        c \in {NoBounds, [present |-> TRUE, hi |-> Limit(8), lo |-> Unset]}}

ShewhartSpecs == [minBaselineN : {0, 2, 3}, populationSigma : BOOLEAN]

RangeChartSpecs == [subgroupSize : {1, 2, 7, 12}, minBaselineSubgroups : 0..MaxSamples]

TrendSpecs == [present : {TRUE}, windowSize : {0, 2, 3}, epsilon : {0, 4}]

TPASpecs ==
    [windowN : {2, 3}, regressionTimeBasis : {"", "index"},
     slopeThreshold : {Unset, Limit(1)}, timeToSpecThreshold : {Unset, Limit(2)},
     requireSpecLimits : BOOLEAN,
     specLimits : {NoBounds, [present |-> TRUE, hi |-> Limit(10), lo |-> Unset]},
     epsilon : {0}]

DetectorInputs ==
    {[detector |-> "threshold", threshold |-> [present |-> TRUE, op |-> op, value |-> 5],
      resp |-> r] : op \in {">", "<=", "=="}, r \in Responses \ {ErrResp}}
    \cup {[detector |-> "robust_zscore", samples |-> s, latest |-> v] :
            s \in SampleLists, v \in SampleValues}
    \cup {[detector |-> "missing_data", latestTS |-> ts, maxGapSeconds |-> 1, clock |-> c] :
            ts \in 0..MaxSamples, c \in 0..MaxSamples}
    \cup {[detector |-> "spec_limit", value |-> v, spec |-> s] :
            v \in SampleValues, s \in SpecLimitSpecs}
    \cup {[detector |-> "shewhart", samples |-> s, spec |-> c, sigmaMultiplier |-> k] :
            s \in SampleLists \ {<<>>}, c \in ShewhartSpecs, k \in {2, 3}}
    \cup {[detector |-> "range_chart", groups |-> g, spec |-> c] :
            g \in GroupLists, c \in RangeChartSpecs}
    \cup {[detector |-> "trend", samples |-> s, spec |-> c] :
            s \in SampleLists, c \in TrendSpecs}
    \cup {[detector |-> "tpa", samples |-> s, spec |-> c] :
            s \in TimedLists, c \in TPASpecs}

DetInit ==
    /\ Quiescent
    /\ fin \in DetectorInputs
    /\ fout = NotYet

call_EvaluateThresholdDetector ==
    /\ fin.detector = "threshold"
    /\ Returns(EvaluateThresholdDetector(fin.threshold, fin.resp))

call_EvaluateRobustZ ==
    /\ fin.detector = "robust_zscore"
    /\ Returns(EvaluateRobustZ(fin.samples, fin.latest, 3, 5))

call_EvaluateMissingData ==
    /\ fin.detector = "missing_data"
    /\ Returns(EvaluateMissingData(fin.latestTS, fin.maxGapSeconds, fin.clock))

call_EvaluateSpecLimit ==
    /\ fin.detector = "spec_limit"
    /\ Returns(EvaluateSpecLimit(fin.value, fin.spec))

call_EvaluateShewhart ==
    /\ fin.detector = "shewhart"
    /\ Returns(EvaluateShewhart(fin.samples, fin.spec, fin.sigmaMultiplier))

call_EvaluateRangeChart ==
    /\ fin.detector = "range_chart"
    /\ Returns(EvaluateRangeChart(fin.groups, fin.spec))

call_EvaluateTrend6 ==
    /\ fin.detector = "trend"
    /\ Returns(EvaluateTrend6(fin.samples, fin.spec))

call_EvaluateTPA ==
    /\ fin.detector = "tpa"
    /\ Returns(EvaluateTPA(fin.samples, fin.spec))

DetNext ==
    \/ call_EvaluateThresholdDetector
    \/ call_EvaluateRobustZ
    \/ call_EvaluateMissingData
    \/ call_EvaluateSpecLimit
    \/ call_EvaluateShewhart
    \/ call_EvaluateRangeChart
    \/ call_EvaluateTrend6
    \/ call_EvaluateTPA

DetSpec == DetInit /\ [][DetNext]_vars

(***************************************************************************)
(* ValSpec: RuntimeValidateRule applied to a rule and an adapter.  Names   *)
(* and column types are character sequences, so that the identifier       *)
(* pattern and the substring tests on types are computed.  The result is   *)
(* the text of the returned error, "" for nil.                             *)
(***************************************************************************)
UpperCase == <<"A", "B", "C", "D", "E", "F", "G", "H", "I", "J", "K", "L", "M",
               "N", "O", "P", "Q", "R", "S", "T", "U", "V", "W", "X", "Y", "Z">>
LowerCase == <<"a", "b", "c", "d", "e", "f", "g", "h", "i", "j", "k", "l", "m",
               "n", "o", "p", "q", "r", "s", "t", "u", "v", "w", "x", "y", "z">>
Digits == {"0", "1", "2", "3", "4", "5", "6", "7", "8", "9"}

\* strings.ToLower
ToLowerString(s) ==
    [i \in 1..Len(s) |->
        IF s[i] \in Range(UpperCase)
          THEN LowerCase[CHOOSE k \in 1..26 : UpperCase[k] = s[i]]
          ELSE s[i]]

\* strings.Contains
Contains(s, sub) ==
    \E i \in 1..(Len(s) - Len(sub) + 1) : SubSeq(s, i, i + Len(sub) - 1) = sub

\* ^[a-zA-Z_][a-zA-Z0-9_]*$
IsSafeIdentifier(value) ==
    /\ value # <<>>
    /\ value[1] \in Range(UpperCase) \cup Range(LowerCase) \cup {"_"}
    /\ \A i \in 2..Len(value) :
         value[i] \in Range(UpperCase) \cup Range(LowerCase) \cup Digits \cup {"_"}

isNumericType(colType) ==
    LET value == ToLowerString(colType) IN
    \/ Contains(value, <<"i", "n", "t">>)
    \/ Contains(value, <<"d", "e", "c", "i", "m", "a", "l">>)
    \/ Contains(value, <<"n", "u", "m", "e", "r", "i", "c">>)
    \/ Contains(value, <<"f", "l", "o", "a", "t">>)
    \/ Contains(value, <<"d", "o", "u", "b", "l", "e">>)
    \/ Contains(value, <<"r", "e", "a", "l">>)

isTimeType(colType) ==
    LET value == ToLowerString(colType) IN
    \/ Contains(value, <<"t", "i", "m", "e">>)
    \/ Contains(value, <<"d", "a", "t", "e">>)

isSupportedRangeChartSize(size) == size \in 2..10

MaxWindowSeconds == 86400

\* the source database behind the adapter
TableT1 == <<"t", "1">>
ColumnTS == <<"t", "s">>
ColumnV == <<"v">>
ColumnW == <<"w">>
TimestampTypes == {<<"t", "i", "m", "e", "s", "t", "a", "m", "p">>, <<"D", "A", "T", "E">>,
                   <<"v", "a", "r", "c", "h", "a", "r">>}
ValueTypes == {<<"D", "O", "U", "B", "L", "E">>, <<"i", "n", "t">>, <<"t", "e", "x", "t">>}

\* a DbMcpAdapter: its capabilities, what introspection returns, and the
\* calls that return an error; QueryAggregate always fails on an adapter
\* that does not support aggregates
AdapterCalls == {"ListTables", "ListColumns", "FetchRecentRows", "QueryAggregate", "QueryLatestValue"}
Adapters ==
    {[supportsIntrospection |-> si, supportsAggregate |-> sa, tables |-> {TableT1},
      columns |-> [c \in {ColumnTS, ColumnV} |-> IF c = ColumnTS THEN tt ELSE vt],
      failing |-> IF sa THEN f ELSE f \cup {"QueryAggregate"}] :
        si \in BOOLEAN, sa \in BOOLEAN, tt \in TimestampTypes, vt \in ValueTypes,
        f \in {{}, {"QueryAggregate"}, {"QueryLatestValue"}}}

\* the detector configuration RuntimeValidateRule looks at
ValidatedParams ==
    {[valueColumn |-> vc, detector |-> [type |-> ty, rangeChart |-> rc]] :
        vc \in {ColumnV}, ty \in {"threshold", "spec_limit", "shewhart", "trend", "tpa", "missing_data"},
        rc \in {[present |-> FALSE, subgroupSize |-> 0, mode |-> "", column |-> <<>>]}}
    \cup {[valueColumn |-> vc, detector |-> [type |-> ty, rangeChart |-> rc]] :
        vc \in {ColumnV, ColumnW}, ty \in {"range_chart", "robust_zscore"},
        rc \in {[present |-> FALSE, subgroupSize |-> 0, mode |-> "", column |-> <<>>],
                [present |-> TRUE, subgroupSize |-> 12, mode |-> "", column |-> <<>>],
                [present |-> TRUE, subgroupSize |-> 5, mode |-> "column", column |-> <<>>],
                [present |-> TRUE, subgroupSize |-> 5, mode |-> "column", column |-> ColumnTS],
                [present |-> TRUE, subgroupSize |-> 5, mode |-> "consecutive", column |-> <<>>]}}

ValidatedSpecs ==
    {[pollIntervalSeconds |-> p, aggregation |-> a, windowSeconds |-> w, table |-> tb,
      timestampColumn |-> ColumnTS, parameters |-> <<pm>>] :
        p \in {2, 10}, a \in {"", "latest", "avg"},
        w \in {Unset, Limit(0), Limit(60), Limit(MaxWindowSeconds + 1)},
        tb \in {TableT1, <<"t", ";">>, <<"t", "2">>}, pm \in ValidatedParams}

\* the checks of one parameter, in the order of the loop body
validateParameter(adapter, spec, param) ==
    LET d == param.detector
        aggregated == spec.aggregation # "" /\ spec.aggregation # "latest"
    IN
    IF param.valueColumn \notin DOMAIN adapter.columns THEN "value column not found"
    ELSE IF d.type = "robust_zscore" THEN
        IF ~isNumericType(adapter.columns[param.valueColumn])
          THEN "non-numeric column for robust_zscore"
        ELSE IF "FetchRecentRows" \in adapter.failing THEN "adapter error"
        ELSE ""
    ELSE IF d.type = "range_chart" THEN
        IF ~d.rangeChart.present THEN "range_chart config missing"
        ELSE IF ~isSupportedRangeChartSize(d.rangeChart.subgroupSize)
          THEN "unsupported subgroup size"
        ELSE IF ~isNumericType(adapter.columns[param.valueColumn])
          THEN "non-numeric column for range_chart"
        ELSE IF d.rangeChart.mode = "column" /\ d.rangeChart.column = <<>>
          THEN "subgrouping column required"
        ELSE IF d.rangeChart.mode = "column" /\ d.rangeChart.column \notin DOMAIN adapter.columns
          THEN "subgrouping column not found"
        ELSE IF "FetchRecentRows" \in adapter.failing THEN "adapter error"
        ELSE ""
    ELSE IF d.type \in {"shewhart", "trend", "tpa", "spec_limit"}
            /\ ~isNumericType(adapter.columns[param.valueColumn])
      THEN "non-numeric column for detector"
    ELSE IF d.type = "threshold" /\ aggregated /\ spec.windowSeconds.set THEN
        IF "QueryAggregate" \in adapter.failing THEN "adapter error" ELSE ""
    ELSE IF "QueryLatestValue" \in adapter.failing THEN "adapter error"
    ELSE ""

RECURSIVE validateParameters(_, _, _)
validateParameters(adapter, spec, params) ==
    IF params = <<>> THEN ""
    ELSE IF validateParameter(adapter, spec, Head(params)) # ""
      THEN validateParameter(adapter, spec, Head(params))
      ELSE validateParameters(adapter, spec, Tail(params))

\* RuntimeValidateRule with its adapter argument; the allowlist and the
\* limits are those of the worker
RuntimeValidateRuleWith(adapter, spec) ==
    LET aggregated == spec.aggregation # "" /\ spec.aggregation # "latest"
        params == spec.parameters
    IN
    IF spec.pollIntervalSeconds < MinPollSeconds \/ spec.pollIntervalSeconds > MaxPollSeconds
      THEN "poll interval out of bounds"
    ELSE IF aggregated /\ (~spec.windowSeconds.set \/ spec.windowSeconds.v <= 0)
      THEN "windowSeconds required"
    ELSE IF aggregated /\ spec.windowSeconds.v > MaxWindowSeconds
      THEN "windowSeconds exceeds limit"
    ELSE IF ~IsSafeIdentifier(spec.table) \/ ~IsSafeIdentifier(spec.timestampColumn)
      THEN "unsafe identifier"
    ELSE IF params = <<>> THEN "parameters required"
    ELSE IF \E i \in 1..Len(params) : ~IsSafeIdentifier(params[i].valueColumn)
      THEN "unsafe value column"
    ELSE IF ~AllowsTable(spec.table) THEN "table not allowlisted"
    ELSE IF ~adapter.supportsIntrospection THEN "adapter does not support introspection"
    ELSE IF "ListTables" \in adapter.failing THEN "adapter error"
    ELSE IF spec.table \notin adapter.tables THEN "table not found"
    ELSE IF "ListColumns" \in adapter.failing THEN "adapter error"
    ELSE IF spec.timestampColumn \notin DOMAIN adapter.columns THEN "timestamp column not found"
    ELSE validateParameters(adapter, spec, params)

ValInit ==
    /\ Quiescent
    /\ fin \in [adapter : Adapters, spec : ValidatedSpecs]
    /\ fout = NotYet

call_RuntimeValidateRule ==
    /\ "adapter" \in DOMAIN fin
    /\ Returns(RuntimeValidateRuleWith(fin.adapter, fin.spec))

ValNext == call_RuntimeValidateRule

ValSpec == ValInit /\ [][ValNext]_vars

(***************************************************************************)
(* StaticSpec: the rule-service validator, ValidateRuleSpec, applied to a  *)
(* rule document.  A float64 multiplier is held in tenths (25 is 2.5).     *)
(* The documents carry configuration blocks for threshold, shewhart and    *)
(* trend only; for the other detector types the block is nil.              *)
(***************************************************************************)
NoCondition == [op |-> "", value |-> 0]
NoBaseline == [lastN |-> Unset, timeRange |-> [present |-> FALSE, start |-> "", end |-> ""]]
NoShewhart == [present |-> FALSE, baseline |-> NoBaseline, sigmaTenths |-> 0, minBaselineN |-> 0]

\* rule-service normalizeParameters
rules_normalizeParameters(spec) ==
    IF Len(spec.parameters) > 0 THEN spec.parameters
    ELSE IF spec.valueColumn = <<>> THEN <<>>
    ELSE <<[parameterName |-> spec.parameterName, valueColumn |-> spec.valueColumn,
            detector |-> [type |-> "threshold",
                          threshold |-> [present |-> TRUE, op |-> spec.condition.op,
                                         value |-> spec.condition.value],
                          shewhart |-> NoShewhart, trend |-> NoTrend]]>>

\* the Field suffix of the ErrorDetail, "" for nil
validateBaseline(baseline) ==
    IF baseline.lastN.set /\ baseline.timeRange.present THEN "baseline"
    ELSE IF ~baseline.lastN.set /\ ~baseline.timeRange.present THEN "baseline"
    ELSE IF baseline.lastN.set /\ baseline.lastN.v <= 0 THEN "baseline.lastN"
    ELSE IF baseline.timeRange.present
            /\ (baseline.timeRange.start = "" \/ baseline.timeRange.end = "")
      THEN "baseline.timeRange"
    ELSE ""

\* SigmaMultiplier != 0 && (SigmaMultiplier < 2 || SigmaMultiplier > 3)
SigmaMultiplierInvalid(tenths) == tenths # 0 /\ (tenths < 20 \/ tenths > 30)

validateDetector(detector, pollInterval) ==
    IF detector.type = "threshold" THEN
        IF ~detector.threshold.present THEN "detector.threshold"
        ELSE IF detector.threshold.op = "" THEN "detector.threshold"
        ELSE ""
    ELSE IF detector.type = "shewhart" THEN
        IF ~detector.shewhart.present THEN "detector.shewhart"
        ELSE IF validateBaseline(detector.shewhart.baseline) # ""
          THEN validateBaseline(detector.shewhart.baseline)
        ELSE IF SigmaMultiplierInvalid(detector.shewhart.sigmaTenths)
          THEN "detector.shewhart.sigmaMultiplier"
        ELSE IF detector.shewhart.minBaselineN < 0 THEN "detector.shewhart.minBaselineN"
        ELSE ""
    ELSE IF detector.type = "trend" THEN
        IF ~detector.trend.present THEN "detector.trend"
        ELSE IF detector.trend.windowSize < 2 THEN "detector.trend.windowSize"
        ELSE IF detector.trend.epsilon < 0 THEN "detector.trend.epsilon"
        ELSE ""
    ELSE IF detector.type = "robust_zscore" THEN "detector.robustZ"
    ELSE IF detector.type = "missing_data" THEN "detector.missingData"
    ELSE IF detector.type = "spec_limit" THEN "detector.specLimit"
    ELSE IF detector.type = "range_chart" THEN "detector.rangeChart"
    ELSE IF detector.type = "tpa" THEN "detector.tpa"
    ELSE "detector.type"

RECURSIVE validateParams(_, _)
validateParams(params, pollInterval) ==
    IF params = <<>> THEN <<>>
    ELSE LET param == Head(params)
             d1 == IF ~IsSafeIdentifier(param.valueColumn) THEN <<"valueColumn">> ELSE <<>>
             d2 == IF param.parameterName # <<>> /\ ~IsSafeIdentifier(param.parameterName)
                     THEN <<"parameterName">> ELSE <<>>
             d3 == IF validateDetector(param.detector, pollInterval) # ""
                     THEN <<validateDetector(param.detector, pollInterval)>> ELSE <<>>
         IN  d1 \o d2 \o d3 \o validateParams(Tail(params), pollInterval)

\* the ParseError code ("" for nil) and the fields of its details
ValidateRuleSpec(spec, minPoll, maxPoll) ==
    LET params == rules_normalizeParameters(spec)
        details ==
            (IF ~IsSafeIdentifier(spec.table) THEN <<"source.table">> ELSE <<>>)
         \o (IF ~IsSafeIdentifier(spec.timestampColumn) THEN <<"source.timestampColumn">> ELSE <<>>)
         \o (IF spec.pollIntervalSeconds < minPoll \/ spec.pollIntervalSeconds > maxPoll
               THEN <<"pollIntervalSeconds">> ELSE <<>>)
         \o (IF spec.aggregation # "" /\ spec.aggregation # "latest"
                  /\ (~spec.windowSeconds.set \/ spec.windowSeconds.v <= 0
                      \/ spec.windowSeconds.v < spec.pollIntervalSeconds)
               THEN <<"windowSeconds">> ELSE <<>>)
         \o (IF params = <<>> THEN <<"parameters">> ELSE <<>>)
         \o validateParams(params, spec.pollIntervalSeconds)
    IN  [code |-> IF details # <<>> THEN "RULE_SCHEMA_INVALID" ELSE "", details |-> details]

\* sigmaMultiplier values: 0, 1.9, 2, 2.5, 3, 3.1, -2, 6
SigmaTenths == {0, 19, 20, 25, 30, 31, -20, 60}

Baselines ==
    {NoBaseline, [NoBaseline EXCEPT !.lastN = Limit(50)], [NoBaseline EXCEPT !.lastN = Limit(0)],
     [NoBaseline EXCEPT !.timeRange = [present |-> TRUE, start |-> "a", end |-> "b"]],
     [lastN |-> Limit(50), timeRange |-> [present |-> TRUE, start |-> "a", end |-> "b"]]}

StaticDetectors ==
    {[type |-> "shewhart", threshold |-> NoThreshold, trend |-> NoTrend,
      shewhart |-> [present |-> TRUE, baseline |-> bl, sigmaTenths |-> sg, minBaselineN |-> n]] :
        bl \in Baselines, sg \in SigmaTenths, n \in {-1, 0, 20}}
    \cup {[type |-> ty, threshold |-> NoThreshold, trend |-> NoTrend, shewhart |-> NoShewhart] :
            ty \in {"shewhart", "threshold", "trend", "tpa", "zscore"}}
    \cup {[type |-> "trend", threshold |-> NoThreshold, shewhart |-> NoShewhart,
           trend |-> [present |-> TRUE, windowSize |-> ws, epsilon |-> 0]] : ws \in {1, 6}}
    \cup {[type |-> "threshold", trend |-> NoTrend, shewhart |-> NoShewhart,
           threshold |-> [present |-> TRUE, op |-> op, value |-> 5]] : op \in {"", ">"}}

StaticDocs ==
    {[table |-> tb, timestampColumn |-> ColumnTS, pollIntervalSeconds |-> p,
      aggregation |-> "", windowSeconds |-> Unset,
      parameterName |-> <<>>, valueColumn |-> <<>>, condition |-> NoCondition,
      parameters |-> <<[parameterName |-> pn, valueColumn |-> ColumnV, detector |-> d]>>] :
        tb \in {TableT1, <<"t", ";">>}, p \in {2, 10}, pn \in {<<>>, <<"p", "-">>},
        d \in StaticDetectors}
    \cup {[table |-> TableT1, timestampColumn |-> ColumnTS, pollIntervalSeconds |-> 10,
           aggregation |-> a, windowSeconds |-> w,
           parameterName |-> <<>>, valueColumn |-> vc, condition |-> [op |-> ">", value |-> 5],
           parameters |-> <<>>] :
        a \in {"", "avg"}, w \in {Unset, Limit(5), Limit(60)}, vc \in {<<>>, ColumnV}}

StaticInit ==
    /\ Quiescent
    /\ fin \in [spec : StaticDocs]
    /\ fout = NotYet

call_ValidateRuleSpec ==
    /\ "spec" \in DOMAIN fin
    /\ Returns(ValidateRuleSpec(fin.spec, MinPollSeconds, MaxPollSeconds))

StaticNext == call_ValidateRuleSpec

StaticSpec == StaticInit /\ [][StaticNext]_vars

(***************************************************************************)
(* NormSpec: the three normalizeParameters functions (rule-service         *)
(* validator, scheduler runtime validator, scheduler worker) applied to a  *)
(* rule document in either shape, next to normalize(spec) as section 4.2   *)
(* of the specification defines it.                                        *)
(***************************************************************************)
LegacyThreshold(spec) ==
    [type |-> "threshold",
     threshold |-> [present |-> TRUE, op |-> spec.condition.op, value |-> spec.condition.value],
     shewhart |-> NoShewhart, trend |-> NoTrend]

\* scheduler runtime validator (package validation) normalizeParameters
validation_normalizeParameters(spec) ==
    IF Len(spec.parameters) > 0 THEN spec.parameters
    ELSE IF spec.valueColumn = <<>> THEN <<>>
    ELSE <<[parameterName |-> spec.parameterName, valueColumn |-> spec.valueColumn,
            detector |-> LegacyThreshold(spec)]>>

fallbackParamName(name, valueColumn) == IF name # <<>> THEN name ELSE valueColumn

\* scheduler worker (package scheduler) normalizeParameters
scheduler_normalizeParameters(spec) ==
    IF Len(spec.parameters) > 0 THEN
        [i \in 1..Len(spec.parameters) |->
            IF spec.parameters[i].parameterName = <<>>
              THEN [spec.parameters[i] EXCEPT !.parameterName = spec.parameters[i].valueColumn]
              ELSE spec.parameters[i]]
    ELSE IF spec.valueColumn = <<>> THEN <<>>
    ELSE <<[parameterName |-> fallbackParamName(spec.parameterName, spec.valueColumn),
            valueColumn |-> spec.valueColumn, detector |-> LegacyThreshold(spec)]>>

\* normalize(spec) of the specification
normalize(spec) ==
    IF Len(spec.parameters) > 0 THEN
        [i \in 1..Len(spec.parameters) |->
            IF spec.parameters[i].parameterName = <<>>
              THEN [spec.parameters[i] EXCEPT !.parameterName = spec.parameters[i].valueColumn]
              ELSE spec.parameters[i]]
    ELSE IF spec.valueColumn # <<>> THEN
        <<[parameterName |-> spec.valueColumn, valueColumn |-> spec.valueColumn,
           detector |-> LegacyThreshold(spec)]>>
    ELSE <<>>

NormParams ==
    {[parameterName |-> pn, valueColumn |-> vc, detector |-> d] :
        pn \in {<<>>, <<"p">>}, vc \in {ColumnV, ColumnW},
        d \in {[type |-> "trend", threshold |-> NoThreshold, shewhart |-> NoShewhart,
                trend |-> [present |-> TRUE, windowSize |-> 6, epsilon |-> 0]],
               [type |-> "threshold", trend |-> NoTrend, shewhart |-> NoShewhart,
                threshold |-> [present |-> TRUE, op |-> ">", value |-> 5]]}}

NormDocs ==
    {[parameterName |-> pn, valueColumn |-> vc, condition |-> [op |-> ">", value |-> 5],
      parameters |-> ps] :
        pn \in {<<>>, <<"p">>}, vc \in {<<>>, ColumnV}, ps \in SeqsUpTo(NormParams, 2)}

Normalizers == {"rules", "validation", "scheduler"}

NormInit ==
    /\ Quiescent
    /\ fin \in [normalizer : Normalizers, doc : NormDocs]
    /\ fout = NotYet

call_rules_normalizeParameters ==
    /\ "normalizer" \in DOMAIN fin /\ fin.normalizer = "rules"
    /\ Returns(rules_normalizeParameters(fin.doc))

call_validation_normalizeParameters ==
    /\ "normalizer" \in DOMAIN fin /\ fin.normalizer = "validation"
    /\ Returns(validation_normalizeParameters(fin.doc))

call_scheduler_normalizeParameters ==
    /\ "normalizer" \in DOMAIN fin /\ fin.normalizer = "scheduler"
    /\ Returns(scheduler_normalizeParameters(fin.doc))

NormNext ==
    \/ call_rules_normalizeParameters
    \/ call_validation_normalizeParameters
    \/ call_scheduler_normalizeParameters

NormSpec == NormInit /\ [][NormNext]_vars

(***************************************************************************)
(* TransSpec: Transport.Call for the HTTP and the stdio transport, applied *)
(* to the JSON-RPC response the MCP server sent.  An error value is nil or *)
(* carries its text.                                                       *)
(***************************************************************************)
NilError == [isNil |-> TRUE, text |-> ""]

\* errors.New(text)
NewError(text) == [isNil |-> FALSE, text |-> text]

ErrorCodes == {-32601, -32000, 1}
ErrorMessages ==
    {"", "mcp error", "table not found", "unknown column", "access denied",
     "timeout", "syntax error", "connection refused", "read only", "limit exceeded"}

\* {result} or {error: {code, message}}
RpcResponses ==
    {[hasError |-> FALSE, code |-> 0, message |-> "", result |-> r] : r \in {"[]", "{}", "null"}}
    \cup {[hasError |-> TRUE, code |-> c, message |-> m, result |-> "null"] :
            c \in ErrorCodes, m \in ErrorMessages}

\* if rpcResp.Error != nil { return nil, errors.New(rpcResp.Error.Message) }
HTTPTransport_Call(rpcResp) ==
    IF rpcResp.hasError THEN [result |-> "null", err |-> NewError(rpcResp.message)]
    ELSE [result |-> rpcResp.result, err |-> NilError]

\* if resp.Error != nil { return nil, errors.New("mcp error") }
StdioTransport_Call(resp) ==
    IF resp.hasError THEN [result |-> "null", err |-> NewError("mcp error")]
    ELSE [result |-> resp.result, err |-> NilError]

TransInit ==
    /\ Quiescent
    /\ fin \in [transport : {"http", "stdio"}, response : RpcResponses]
    /\ fout = NotYet

call_HTTPTransport_Call ==
    /\ "transport" \in DOMAIN fin /\ fin.transport = "http"
    /\ Returns(HTTPTransport_Call(fin.response))

call_StdioTransport_Call ==
    /\ "transport" \in DOMAIN fin /\ fin.transport = "stdio"
    /\ Returns(StdioTransport_Call(fin.response))

TransNext ==
    \/ call_HTTPTransport_Call
    \/ call_StdioTransport_Call

TransSpec == TransInit /\ [][TransNext]_vars

(***************************************************************************)
(* GapSpec: hasConsecutiveTimestamps applied to sample lists of up to      *)
(* MaxSamples + 1 samples (three gaps, so that the median gap and the      *)
(* largest gap differ).  Timestamps are whole seconds.                     *)
(***************************************************************************)
Timestamps == 0..5

StampedLists ==
    {[i \in 1..Len(ts) |-> [ts |-> ts[i], value |-> 1]] : ts \in SeqsUpTo(Timestamps, MaxSamples + 1)}

\* delta := samples[i].TS.Sub(samples[i-1].TS).Seconds(), i = 1..len-1
Deltas(samples) == [i \in 1..(Len(samples) - 1) |-> samples[i + 1].ts - samples[i].ts]

NotAfterPredecessorOnlyEarlier(delta) == delta < 0

\* if delta <= 0 { return false }
NotAfterPredecessor(delta) == delta <= 0

hasConsecutiveTimestamps(samples) ==
    IF Len(samples) < 2 THEN TRUE
    ELSE LET deltas == Deltas(samples) IN
         IF \E i \in 1..Len(deltas) : NotAfterPredecessor(deltas[i]) THEN FALSE
         ELSE IF Median2(deltas) = 0 THEN FALSE
         ELSE IF \E i \in 1..Len(deltas) : deltas[i] > Median2(deltas) THEN FALSE
         ELSE TRUE

GapInit ==
    /\ Quiescent
    /\ fin \in [samples : StampedLists]
    /\ fout = NotYet

call_hasConsecutiveTimestamps ==
    /\ "samples" \in DOMAIN fin /\ "detector" \notin DOMAIN fin
    /\ Returns(hasConsecutiveTimestamps(fin.samples))

GapNext == call_hasConsecutiveTimestamps

GapSpec == GapInit /\ [][GapNext]_vars

(***************************************************************************)
(* GroupSpec: groupConsecutive applied to sample lists of up to            *)
(* MaxSamples + 2 samples and to sizes from -1 to 3, so that a list of     *)
(* five samples is cut into two groups of two with a remainder of one.     *)
(* Sample i carries timestamp i, which makes the samples of one list       *)
(* pairwise distinct.                                                      *)
(***************************************************************************)
GroupSizes == -1..3

NumberedLists ==
    {[i \in 1..Len(vs) |-> [ts |-> i, value |-> vs[i]]] : vs \in SeqsUpTo({1, 2}, MaxSamples + 2)}

NextGroupFitsStrict(i, size, n) == i + size < n

\* loop condition: i+size <= len(samples)
NextGroupFits(i, size, n) == i + size <= n

\* the loop body from index i (0-based) on: copy samples[i:i+size], append
RECURSIVE groupFrom(_, _, _)
groupFrom(samples, size, i) ==
    IF NextGroupFits(i, size, Len(samples))
    THEN <<SubSeq(samples, i + 1, i + size)>> \o groupFrom(samples, size, i + size)
    ELSE <<>>

\* nil (size <= 0) and the empty slice are both the empty sequence of groups;
\* isNil keeps them apart
groupConsecutive(samples, size) ==
    IF size <= 0 THEN [isNil |-> TRUE, groups |-> <<>>]
    ELSE [isNil |-> FALSE, groups |-> groupFrom(samples, size, 0)]

GroupInit ==
    /\ Quiescent
    /\ fin \in [samples : NumberedLists, size : GroupSizes]
    /\ fout = NotYet

call_groupConsecutive ==
    /\ "size" \in DOMAIN fin
    /\ Returns(groupConsecutive(fin.samples, fin.size))

GroupNext == call_groupConsecutive

GroupSpec == GroupInit /\ [][GroupNext]_vars

(***************************************************************************)
(* ReloadSpec: reconcile (startup, POST /jobs/reload) run with no event in *)
(* flight, from any stored rows and a registry that may hold a Job of r1   *)
(* scheduled before its row last changed.  An operator may disable a rule  *)
(* meanwhile; the event this publishes is not delivered.                   *)
(***************************************************************************)
ReloadInit ==
    /\ rows \in [Rules -> SeqRows]
    /\ \E held \in BOOLEAN :
         /\ jobTab = IF held THEN <<NewJob("r1", Good10)>> ELSE <<>>
         /\ jobs = [id \in Rules |-> IF id = "r1" /\ held THEN 1 ELSE 0]
    /\ stoppc = "idle"
    /\ queue = <<>>
    /\ WorkersIdle
    /\ HandlersIdle
    /\ KernelIdle
    /\ UnitsIdle
    /\ RegistryUnlocked

ReloadNext ==
    \/ \E id \in Rules : handleRuleDisable(id)
    \/ reconcile
    \/ reconcileNext
    \/ processRule("reload")

ReloadSpec == ReloadInit /\ [][ReloadNext]_vars

(***************************************************************************)
(* ShareSpec: two workers execute two runs of the same Job.  A JobRun is   *)
(* built as JobRun{spec: job.spec}: the struct is copied, its Parameters   *)
(* slice still points to the Job's backing array, so                       *)
(* jobTab[j].spec.parameters is the memory both runs and the Job share.    *)
(* normalizeParameters is taken element by element: the read of            *)
(* ParameterName, then the write.  A read that races with another          *)
(* goroutine's write of the same element is unsynchronized and may return  *)
(* the old value, the new one, or a torn string header.                    *)
(***************************************************************************)
ShareSpecs == {Cool10, CoolA, CoolB}

Torn == "\\torn"

\* the Job whose backing array the run of worker w points to
SharedJob(w) == jobs[wrun[w].ruleID]

\* another goroutine is between its read and its write of element i
WriteInProgress(w, i) ==
    \E v \in Workers \ {w} :
        wpc[v] = "normalizeParameters_write" /\ wi[v] = i /\ SharedJob(v) = SharedJob(w)

\* what spec.Parameters[i].ParameterName may read as
ParameterNameRead(w, i) ==
    LET elem == jobTab[SharedJob(w)].spec.parameters[i] IN
    IF WriteInProgress(w, i) THEN {elem.parameterName, elem.valueColumn, Torn}
    ELSE {elem.parameterName}

\* for i := range spec.Parameters: next element, or return spec.Parameters
NormalizeAdvance(w) ==
    IF wi[w] < Len(jobTab[SharedJob(w)].spec.parameters)
      THEN /\ wi' = [wi EXCEPT ![w] = @ + 1]
           /\ wpc' = [wpc EXCEPT ![w] = "normalizeParameters"]
      ELSE /\ wi' = [wi EXCEPT ![w] = 1]
           /\ wpc' = [wpc EXCEPT ![w] = "evaluateParameter"]

\* if spec.Parameters[i].ParameterName == "" {
execute_normalizeParameters_read(w) ==
    /\ wpc[w] = "normalizeParameters"
    /\ \E seen \in ParameterNameRead(w, wi[w]) :
         IF seen = ""
           THEN /\ wpc' = [wpc EXCEPT ![w] = "normalizeParameters_write"]
                /\ UNCHANGED wi
           ELSE NormalizeAdvance(w)
    /\ UNCHANGED <<queue, ticks, wrun, wres, wlast, wdl, alerts, now, evals, done,
                   rvars, cvars, svars, pvars, uvars, lvars>>

\*     spec.Parameters[i].ParameterName = spec.Parameters[i].ValueColumn }
execute_normalizeParameters_write(w) ==
    /\ wpc[w] = "normalizeParameters_write"
    /\ jobTab' = [jobTab EXCEPT ![SharedJob(w)].spec.parameters[wi[w]].parameterName =
                                   jobTab[SharedJob(w)].spec.parameters[wi[w]].valueColumn]
    /\ NormalizeAdvance(w)
    /\ UNCHANGED <<jobs, stoppc, queue, ticks, wrun, wres, wlast, wdl, alerts, now, evals, done,
                   cvars, svars, pvars, uvars, lvars>>

ShareInit ==
    /\ \E s \in ShareSpecs :
         /\ rows = [id \in Rules |-> IF id = "r1" THEN ActiveRow(s) ELSE NoRow]
         /\ jobTab = <<NewJob("r1", s)>>
         /\ wrun = [w \in Workers |-> JobRun("r1", s, w)]
    /\ jobs = [id \in Rules |-> IF id = "r1" THEN 1 ELSE 0]
    /\ stoppc = "idle"
    /\ queue = <<>>
    /\ wpc = [w \in Workers |-> "normalizeParameters"]
    /\ wi = [w \in Workers |-> 1]
    /\ wres = [w \in Workers |-> NoResult]
    /\ wlast = [w \in Workers |-> NoLast]
    /\ wdl = [w \in Workers |-> Armed]
    /\ ticks = 0
    /\ alerts = <<>>
    /\ now = 0
    /\ evals = {}
    /\ done = {}
    /\ HandlersIdle
    /\ KernelIdle
    /\ UnitsIdle
    /\ RegistryUnlocked

ShareNext ==
    \/ \E w \in Workers : execute_normalizeParameters_read(w)
    \/ \E w \in Workers : execute_normalizeParameters_write(w)
    \/ \E w \in Workers : execute_evaluateParameter(w)
    \/ \E w \in Workers : execute_GetLastAlertForKey(w)
    \/ \E w \in Workers : execute_CreateAlert(w)

ShareSpec == ShareInit /\ [][ShareNext]_vars

(***************************************************************************)
(* LimitSpec: two POST /machine-units/{unitId}/columns requests handled    *)
(* concurrently.  handleMachineUnitColumns reads the unit, tests the       *)
(* limit on the list it would produce, then calls UpdateColumns, whose     *)
(* transaction is that of ColSpec.  The limit of 200 is scaled to          *)
(* ColumnLimit; the unit starts with at most that many columns.            *)
(***************************************************************************)
Preselected == <<"col0", "col3", "col4", "col5", "col6">>

\* current, err := h.Repo.GetMachineUnit(...): the committed row, no lock;
\* if len(applyAddRemove(current.SelectedColumns, add, remove)) >
\* maxSelectedColumns, the request is answered with LIMIT_EXCEEDED
handleMachineUnitColumns_GetMachineUnit(c) ==
    /\ upc[c] = "GetMachineUnit"
    /\ \E found \in BOOLEAN :
         upc' = [upc EXCEPT ![c] =
                   IF ~found THEN "failed"
                   ELSE IF Len(applyAddRemove(decodeStringArray(udb), fin[c].add, fin[c].remove))
                             > ColumnLimit
                     THEN "rejected"
                   ELSE "idle"]
    /\ UNCHANGED <<udb, ulock, ucur>>
    /\ ColFrame

LimitInit ==
    /\ rows = [id \in Rules |-> NoRow]
    /\ RegistryEmpty
    /\ queue = <<>>
    /\ WorkersIdle
    /\ HandlersIdle
    /\ fin \in ColumnArgs
    /\ fout = NotYet
    /\ udb \in {NullRaw} \cup {jsonMarshal(SubSeq(Preselected, 1, k)) : k \in 0..ColumnLimit}
    /\ ulock = 0
    /\ upc = [c \in Callers |-> "GetMachineUnit"]
    /\ ucur = [c \in Callers |-> <<>>]
    /\ RegistryUnlocked

LimitNext ==
    \/ \E c \in Callers : handleMachineUnitColumns_GetMachineUnit(c)
    \/ \E c \in Callers : UpdateColumns_Begin(c)
    \/ \E c \in Callers : UpdateColumns_SelectForUpdate(c)
    \/ \E c \in Callers : UpdateColumns_Update(c)
    \/ \E c \in Callers : UpdateColumns_Commit(c)
    \/ \E c \in Callers : UpdateColumns_Error(c)

LimitSpec == LimitInit /\ [][LimitNext]_vars

(***************************************************************************)
(* LockSpec: the registry's methods with r.mu made explicit.  Two callers  *)
(* (the event handlers, the admin server, main's deferred Stop) enter      *)
(* Schedule, Unschedule, ListJobs (for rule r1) and Stop in any order,     *)
(* Stop up to MaxStops times and Schedule also after Stop; each method     *)
(* waits for r.mu, runs its body and releases the lock on return (defer).  *)
(* Tickers run next to them and never touch r.mu; the one worker takes a   *)
(* run off the queue and stays inside its evaluation.  FairLock assumes    *)
(* only that a goroutine inside a registry method keeps running and that   *)
(* sync.Mutex hands the lock to a waiter (its starvation mode); nothing is *)
(* assumed about tickers, workers, the queue or the database.              *)
(***************************************************************************)
RegistryCalls ==
    {[op |-> "Schedule", ruleID |-> "r1", spec |-> Cool10],
     [op |-> "Unschedule", ruleID |-> "r1", spec |-> ZeroSpec],
     [op |-> "ListJobs", ruleID |-> "r1", spec |-> ZeroSpec]}

\* Schedule calls entered and not yet returned
SchedulesInProgress == Cardinality({c \in Callers : cpc[c] # "idle" /\ cop[c].op = "Schedule"})

StopsInProgress == Cardinality({c \in Callers : cpc[c] # "idle" /\ cop[c].op = "Stop"})

\* a goroutine enters Schedule, Unschedule or ListJobs and reaches r.mu.Lock()
callRegistry(c) ==
    /\ cpc[c] = "idle"
    /\ \E call \in RegistryCalls :
         /\ call.op = "Schedule" => Len(jobTab) + SchedulesInProgress < MaxJobs
         /\ cop' = [cop EXCEPT ![c] = call]
    /\ cpc' = [cpc EXCEPT ![c] = "Lock"]
    /\ UNCHANGED <<mu, nstop, rvars, cvars, qvars, svars, pvars, uvars>>

\* a goroutine enters Stop: r.cancel(), then r.mu.Lock()
Stop_cancelBy(c) ==
    /\ cpc[c] = "idle"
    /\ nstop + StopsInProgress < MaxStops
    /\ stoppc' = IF stoppc = "idle" THEN "lock" ELSE stoppc
    /\ cop' = [cop EXCEPT ![c] = [op |-> "Stop", ruleID |-> "r1", spec |-> ZeroSpec]]
    /\ cpc' = [cpc EXCEPT ![c] = "Lock"]
    /\ UNCHANGED <<mu, nstop, jobs, jobTab, cvars, qvars, svars, pvars, uvars>>

\* r.mu.Lock() returns
mu_Lock(c) ==
    /\ cpc[c] = "Lock"
    /\ mu = 0
    /\ mu' = c
    /\ cpc' = [cpc EXCEPT ![c] = "held"]
    /\ UNCHANGED <<cop, nstop, rvars, cvars, qvars, svars, pvars, uvars>>

\* the method returns: deferred r.mu.Unlock()
mu_Unlock(c) ==
    /\ mu' = 0
    /\ cpc' = [cpc EXCEPT ![c] = "idle"]
    /\ cop' = [cop EXCEPT ![c] = NoCall]

Holds(c, op) == cpc[c] = "held" /\ mu = c /\ cop[c].op = op

Schedule_locked(c) ==
    /\ Holds(c, "Schedule")
    /\ Schedule(cop[c].ruleID, cop[c].spec)
    /\ mu_Unlock(c)
    /\ UNCHANGED <<nstop, cvars, qvars, svars, pvars, uvars>>

Unschedule_locked(c) ==
    /\ Holds(c, "Unschedule")
    /\ Unschedule(cop[c].ruleID)
    /\ mu_Unlock(c)
    /\ UNCHANGED <<nstop, cvars, qvars, svars, pvars, uvars>>

\* jobs := make(...); for id, job := range r.jobs { append }: reads only
ListJobs_locked(c) ==
    /\ Holds(c, "ListJobs")
    /\ mu_Unlock(c)
    /\ UNCHANGED <<nstop, rvars, cvars, qvars, svars, pvars, uvars>>

\* for _, job := range r.jobs { close(job.stop) }; r.jobs = map[string]*Job{}
Stop_locked(c) ==
    /\ Holds(c, "Stop")
    /\ jobTab' = [i \in 1..Len(jobTab) |->
                    IF \E id \in Rules : jobs[id] = i
                      THEN [jobTab[i] EXCEPT !.stop = @ + 1]
                      ELSE jobTab[i]]
    /\ jobs' = [id \in Rules |-> 0]
    /\ stoppc' = "done"
    /\ nstop' = nstop + 1
    /\ mu_Unlock(c)
    /\ UNCHANGED <<cvars, qvars, svars, pvars, uvars>>

\* the queue still holds one run of a Job that has been unscheduled since
LockInit ==
    /\ rows = [id \in Rules |-> ActiveRow(Cool10)]
    /\ RegistryEmpty
    /\ queue = <<JobRun("r1", Cool10, MaxTicks + 1)>>
    /\ ticks = 0
    /\ wpc = [w \in Workers |-> IF w \in RunningWorkers THEN "select" ELSE "none"]
    /\ wrun = [w \in Workers |-> NoRun]
    /\ wi = [w \in Workers |-> 0]
    /\ wres = [w \in Workers |-> NoResult]
    /\ wlast = [w \in Workers |-> NoLast]
    /\ wdl = [w \in Workers |-> Armed]
    /\ alerts = <<>>
    /\ now = 0
    /\ evals = {}
    /\ done = {}
    /\ HandlersIdle
    /\ KernelIdle
    /\ UnitsIdle
    /\ RegistryUnlocked

LockNext ==
    \/ \E c \in Callers : callRegistry(c)
    \/ \E c \in Callers : Stop_cancelBy(c)
    \/ \E c \in Callers : mu_Lock(c)
    \/ \E c \in Callers : Schedule_locked(c)
    \/ \E c \in Callers : Unschedule_locked(c)
    \/ \E c \in Callers : ListJobs_locked(c)
    \/ \E c \in Callers : Stop_locked(c)
    \/ \E j \in 1..MaxJobs : runTicker(j)
    \/ \E w \in RunningWorkers : worker_receive(w)
    \/ \E w \in RunningWorkers : worker_done(w)

LockSpec == LockInit /\ [][LockNext]_vars

\* the locked part of whichever method caller c is in
locked(c) ==
    \/ Schedule_locked(c)
    \/ Unschedule_locked(c)
    \/ ListJobs_locked(c)
    \/ Stop_locked(c)

LockFairness ==
    \A c \in Callers : SF_vars(mu_Lock(c)) /\ WF_vars(locked(c))

FairLock == LockSpec /\ LockFairness

(***************************************************************************)
(* Properties                                                              *)
(***************************************************************************)
Enabled(id) == rows[id].exists /\ rows[id].enabled

\* no handler is running, no event is waiting for delivery
Quiet ==
    /\ \A h \in Handlers : hpc[h] = "idle"
    /\ \A s \in Subjects : pending[s] = <<>>
    /\ todo = {}

OpenJobs(id) == {j \in 1..Len(jobTab) : jobTab[j].ruleID = id /\ jobTab[j].stop = 0}

\* the connection row exists, its type has an adapter, the poll interval is
\* within the limits and the table is one the source database lists
Resolvable(spec) ==
    /\ spec.connectionRef = "c1"
    /\ spec.pollIntervalSeconds >= 5 /\ spec.pollIntervalSeconds <= 3600
    /\ spec.table \in {"telemetry", "events"}

C2_DisabledRuleHasNoJob ==
    \A id \in Rules :
        (/\ lastPub[id] = [subject |-> "rule.disabled", scheduled |-> TRUE]
         /\ rows[id].exists /\ ~rows[id].enabled
         /\ Quiet)
        => jobs[id] = 0

AllExited ==
    /\ \A j \in 1..Len(jobTab) : jobTab[j].tpc = "exited"
    /\ \A w \in RunningWorkers : wpc[w] = "exited"

\* C3 as stated: after Registry.Stop has cancelled the registry context,
\* every ticker and every worker eventually terminates.
C3_StopTerminatesTickersAndWorkers == cancelled ~> AllExited

\* C4 as stated: once a Job's stop signal is closed, the Job's ticker
\* eventually exits.
C4_ClosedStopTickerExits ==
    \A j \in 1..MaxJobs :
        (j <= Len(jobTab) /\ jobTab[j].stop > 0)
            ~> (j <= Len(jobTab) /\ jobTab[j].tpc = "exited")

CooldownOf(key) == rows[key.ruleID].json.spec.cooldownSeconds

\* C5 as stated: two persisted alerts of the same (ruleId, parameterName,
\* detectorType) of a rule with cooldown c > 0 are at least c seconds apart.
C5_AlertsSpacedByCooldown ==
    \A i \in 1..Len(alerts), k \in 1..Len(alerts) :
        (i < k /\ alerts[i].key = alerts[k].key /\ CooldownOf(alerts[i].key) > 0)
        => alerts[k].ts - alerts[i].ts >= CooldownOf(alerts[i].key)

\* C6: when the second of two successive process(ruleId) calls returns, the
\* rule's status and scheduled policy (Job or no Job, its spec and poll
\* interval) are what they were when the first call had returned.
C6_ProcessTwiceSameEndState ==
    (calls = 2 /\ hpc["reload"] = "idle") => Observed("r1") = snap

C6_Witness ==
    /\ calls = 2 /\ hpc["reload"] = "idle"
    /\ jobs["r1"] = 3
    /\ jobTab[1].stop = 1 /\ jobTab[2].stop = 1
    /\ rows["r1"].status = "ACTIVE"

\* C7: a ruleId never has two Jobs whose stop signals are both open, and
\* the only Job with an open stop signal is the one the registry holds.
C7_AtMostOneOpenJob ==
    \A id \in Rules :
        /\ Cardinality(OpenJobs(id)) <= 1
        /\ \A j \in OpenJobs(id) : jobs[id] = j

C7_Witness ==
    \E id \in Rules, j \in 1..MaxJobs, k \in 1..MaxJobs :
        /\ j < k /\ k <= Len(jobTab)
        /\ jobTab[j].ruleID = id /\ jobTab[k].ruleID = id
        /\ jobTab[j].stop = 1 /\ jobTab[k].stop = 0
        /\ jobs[id] = k
        /\ jobTab[j].tpc # "exited"

FailsToResolve(id) ==
    /\ Enabled(id)
    /\ rows[id].json.ok
    /\ ResolveFailure(rows[id].json.spec) # ""

C9_ErrorsDoNotStopEvaluation ==
    /\ \A w \in Workers : wpc[w] # "exited"
    /\ \A d \in done : \A i \in 1..d.n : \E e \in evals : e.run = d.run /\ e.param = i
    /\ (queue = <<>> /\ \A w \in Workers : wpc[w] = "select")
         => {d.run : d \in done} = 1..MaxRuns

C9_Witness ==
    /\ queue = <<>> /\ \A w \in Workers : wpc[w] = "select"
    /\ \E e \in evals :
         /\ e.err /\ e.run = 1 /\ e.param = 1
         /\ \E e2 \in evals : e2.run = 1 /\ e2.param = 2
    /\ \A r \in 1..MaxRuns : \E d \in done : d.run = r

Persisting(w) == wpc[w] \in {"GetLastAlertForKey", "CreateAlert"}

\* C10: a result with status INSUFFICIENT_DATA or INVALID_CONFIG comes
\* without an error and without a hit and never takes the worker to the
\* cooldown lookup or the alert insert; a worker gets there only with a
\* result whose hit is true.
C10_NoAlertWithoutHit ==
    \A w \in Workers :
        /\ wres[w].status \in {statusInsufficient, statusInvalidConfig}
             => (~wres[w].err /\ ~wres[w].hit /\ ~Persisting(w))
        /\ Persisting(w) => (wres[w].hit /\ ~wres[w].err)

C10_Witness ==
    /\ \E w \in Workers : wres[w].status = statusInsufficient
    /\ \E w \in Workers : wres[w].status = statusInvalidConfig
    /\ alerts # <<>>

Returned(detector) == fout.called /\ fin.detector = detector

\* C11: whatever detector function was applied and whatever its input, a
\* result with status INSUFFICIENT_DATA or INVALID_CONFIG has hit = false
\* and an empty violations list.
C11_NoVerdictNoHitNoViolations ==
    fout.called =>
        (fout.value.status \in {statusInsufficient, statusInvalidConfig}
            => (~fout.value.hit /\ fout.value.violations = <<>>))

\* spec_limit, mode both: the value breaches USL, then the control limits
\* turn out to be missing
C11_Witness ==
    /\ Returned("spec_limit")
    /\ fin.spec.mode = "both"
    /\ Breach(fin.spec.specLimits, fin.value, fin.spec.epsilon)
    /\ Missing(fin.spec.controlLimits)
    /\ fout.value.status = statusInvalidConfig

BadSubgroupSize == fin.spec.subgroupSize \notin 2..10

\* C12 as stated: range_chart returns INVALID_CONFIG whenever subgroupSize
\* is outside 2..10, for every list of subgroups and every
\* minBaselineSubgroups.
C12_BadSizeAlwaysInvalidConfig ==
    (Returned("range_chart") /\ BadSubgroupSize)
        => fout.value.status = statusInvalidConfig

EnoughSubgroups ==
    /\ Len(fin.groups) > 0
    /\ Len(fin.groups) >= (IF fin.spec.minBaselineSubgroups = 0 THEN defaultBaselineSubgroups
                           ELSE fin.spec.minBaselineSubgroups)

\* C12, amended: with subgroupSize outside 2..10, range_chart returns
\* INVALID_CONFIG when it is given at least minBaselineSubgroups (default
\* 10) and at least one subgroup, and INSUFFICIENT_DATA when given fewer.
C12_BadSizeInvalidConfigGivenEnoughSubgroups ==
    (Returned("range_chart") /\ BadSubgroupSize)
        => fout.value.status = (IF EnoughSubgroups THEN statusInvalidConfig
                                ELSE statusInsufficient)

C12_Witness ==
    /\ Returned("range_chart")
    /\ fin.spec.subgroupSize = 12
    /\ EnoughSubgroups
    /\ Len(fin.groups) = 2
    /\ fout.value.status = statusInvalidConfig


\* the deadline fired while evaluateParameter was running for e.param of e.run
TimedOut == {e \in evals : e.deadline}

NoAlertFor(e) == \A i \in 1..Len(alerts) : ~(alerts[i].run = e.run /\ alerts[i].param = e.param)

\* C13: when the jobTimeout deadline fires while a parameter is being
\* evaluated, no alert is ever persisted for that parameter of that run,
\* the worker gets back to receiving from the queue, and every run the
\* ticker produces afterwards is evaluated.
C13_TimeoutNoAlertAndRetry ==
    /\ [](\A e \in TimedOut : NoAlertFor(e))
    /\ \A w \in RunningWorkers : DeadlineDuringEvaluate(w) ~> wpc[w] = "select"
    /\ \A n \in 1..MaxTicks :
         (TimedOut # {} /\ jobTab[1].run = n) ~> (\E e \in evals : e.run = n)

\* the evaluation the deadline interrupted had found a hit, its run is
\* over, and a later run of the rule has been evaluated
C13_Witness ==
    \E e \in TimedOut :
        /\ e.hit
        /\ NoAlertFor(e)
        /\ \E r \in done : r.run = e.run
        /\ \E e2 \in evals : e2.run > e.run
        /\ \A w \in RunningWorkers : wpc[w] = "select"

BothReturned == \A c \in Callers : upc[c] \in {"ok", "failed"}

SelectedColumns == Range(decodeStringArray(udb))

Validated == fout.called /\ "adapter" \in DOMAIN fin

Aggregated == fin.spec.aggregation # "" /\ fin.spec.aggregation # "latest"

\* C15: RuntimeValidateRule returns an error when the adapter lacks
\* supportsIntrospection, and, for a rule whose aggregation is set and is
\* not latest, returns an error when the adapter lacks supportsAggregate.
C15_CapabilitiesRequired ==
    Validated =>
        /\ ~fin.adapter.supportsIntrospection => fout.value # ""
        /\ (Aggregated /\ ~fin.adapter.supportsAggregate) => fout.value # ""

\* C16: RuntimeValidateRule rejects a rule with a trend or tpa parameter
\* when the lower-cased type of the timestamp column contains neither
\* "time" nor "date".
C16_TimestampTypeRequired ==
    (/\ Validated
     /\ \E i \in 1..Len(fin.spec.parameters) :
            fin.spec.parameters[i].detector.type \in {"trend", "tpa"}
     /\ fin.spec.timestampColumn \in DOMAIN fin.adapter.columns
     /\ ~isTimeType(fin.adapter.columns[fin.spec.timestampColumn]))
        => fout.value # ""

\* C17: the static validator accepts a shewhart detector only if its
\* sigmaMultiplier is exactly 0, 2 or 3; every other value yields
\* RULE_SCHEMA_INVALID.
C17_SigmaMultiplierZeroTwoOrThree ==
    (fout.called /\ "spec" \in DOMAIN fin) =>
        \A i \in 1..Len(fin.spec.parameters) :
            LET d == fin.spec.parameters[i].detector IN
            (d.type = "shewhart" /\ d.shewhart.present
                /\ d.shewhart.sigmaTenths \notin {0, 20, 30})
                    => fout.value.code = "RULE_SCHEMA_INVALID"

\* C19: each of the three normalizations (rule-service validator, runtime
\* validator, worker) returns the canonical parameter list normalize(spec);
\* in particular a parameter with an empty parameterName gets
\* parameterName = valueColumn.
C19_NormalizationsAgreeWithSpec ==
    (fout.called /\ "normalizer" \in DOMAIN fin) => fout.value = normalize(fin.doc)

\* C18: for both transports, whenever the JSON-RPC response carries
\* error {code, message}, the error returned to the caller has exactly
\* that message as its text.
C18_ErrorMessageVerbatim ==
    (fout.called /\ "transport" \in DOMAIN fin /\ fin.response.hasError)
        => (~fout.value.err.isNil /\ fout.value.err.text = fin.response.message)

GapsChecked == fout.called /\ "samples" \in DOMAIN fin /\ "detector" \notin DOMAIN fin

StrictlyAscending(samples) == \A i \in 2..Len(samples) : samples[i].ts > samples[i - 1].ts

\* twice the median of the gaps between successive timestamps
TwiceMedianGap(samples) == Median2(Deltas(samples))

\* C20: hasConsecutiveTimestamps returns false for every sample list in
\* which some timestamp is equal to or earlier than its predecessor, and
\* true for every strictly ascending list whose successive gaps are all at
\* most twice the median gap.
C20_ConsecutiveTimestamps ==
    GapsChecked =>
        /\ ~StrictlyAscending(fin.samples) => fout.value = FALSE
        /\ (/\ StrictlyAscending(fin.samples)
            /\ \A i \in 2..Len(fin.samples) :
                  fin.samples[i].ts - fin.samples[i - 1].ts <= TwiceMedianGap(fin.samples))
              => fout.value = TRUE

\* four samples, strictly ascending with unequal gaps, accepted
C20_Witness ==
    /\ GapsChecked
    /\ Len(fin.samples) = 4
    /\ StrictlyAscending(fin.samples)
    /\ \E i \in 1..3 : Deltas(fin.samples)[i] # Deltas(fin.samples)[1]
    /\ fout.value = TRUE

Grouped == fout.called /\ "size" \in DOMAIN fin

\* floor(n / size) for a size other than zero
FloorDiv(n, size) ==
    IF size > 0 THEN n \div size ELSE -((n + (-size) - 1) \div (-size))

\* the groups are the successive blocks of `size` samples of the input
Tiles(groups, samples, size) ==
    \A k \in 1..Len(groups) :
        /\ Len(groups[k]) = size
        /\ \A j \in 1..size : groups[k][j] = samples[(k - 1) * size + j]

\* C21 as stated: for every sample list and every size, groupConsecutive
\* returns exactly floor(len(samples) / size) groups, each of length size,
\* tiling the input left to right (a size of zero, for which the quotient
\* is undefined, is left out).
C21_FloorGroupsForEverySize ==
    (Grouped /\ fin.size # 0) =>
        /\ Len(fout.value.groups) = FloorDiv(Len(fin.samples), fin.size)
        /\ Tiles(fout.value.groups, fin.samples, fin.size)

\* C21 amended: for every sample list and every size of at least one,
\* groupConsecutive returns exactly floor(len(samples) / size) groups, each
\* of length size, which are the successive blocks of the input from the
\* left, so that only a trailing remainder shorter than size is dropped;
\* for a size of zero or less it returns no groups.
C21_FloorGroupsForPositiveSize ==
    Grouped =>
        /\ fin.size >= 1 =>
              /\ ~fout.value.isNil
              /\ Len(fout.value.groups) = Len(fin.samples) \div fin.size
              /\ Tiles(fout.value.groups, fin.samples, fin.size)
              /\ Len(fin.samples) - Len(fout.value.groups) * fin.size \in 0..(fin.size - 1)
        /\ fin.size <= 0 => (fout.value.isNil /\ fout.value.groups = <<>>)

\* five samples cut into two groups of two, the fifth dropped
C21_Witness ==
    /\ Grouped
    /\ Len(fin.samples) = 5
    /\ fin.size = 2
    /\ Len(fout.value.groups) = 2

\* the ticker of job j completes its send r.queue <- JobRun{...} in this step
Enqueues(j) ==
    /\ j <= Len(jobTab)
    /\ jobTab[j].tpc = "send"
    /\ jobTab'[j].tpc = "select"
    /\ Len(queue') = Len(queue) + 1

\* job j was unscheduled or replaced: its stop signal is closed and the call
\* that closed it has returned (Schedule and Unschedule close it under r.mu)
Cancelled(j) == j <= Len(jobTab) /\ jobTab[j].stop > 0 /\ ~cancelled

\* C22: after Unschedule(ruleId) has returned, or after Schedule has
\* replaced a Job, the ticker of the cancelled Job enqueues no further
\* JobRun.
C22_NoEnqueueAfterCancel ==
    [][\A j \in 1..MaxJobs : Cancelled(j) => ~Enqueues(j)]_vars

\* the operator's disable is in effect for the rule
DisabledByOperator(id) ==
    rows[id].exists /\ ~rows[id].enabled /\ rows[id].status = "DISABLED"

\* C23: once an operator has disabled a rule (enabled = false, status
\* DISABLED), no step sets its status to ACTIVE or INVALID while the rule
\* stays disabled, a processRule call that loaded the row before the
\* disable included.
C23_DisabledStatusKept ==
    [][\A id \in Rules :
          (DisabledByOperator(id) /\ rows'[id].exists /\ ~rows'[id].enabled)
              => rows'[id].status \notin {"ACTIVE", "INVALID"}]_vars

\* a processRule call for r1 has returned and nothing else is running
ProcessReturned == calls >= 1 /\ hpc["reload"] = "idle"

C25_DeletedRuleHasNoJob ==
    \A id \in Rules :
        (/\ lastPub[id] = [subject |-> "rule.deleted", scheduled |-> TRUE]
         /\ ~rows[id].exists
         /\ Quiet)
        => jobs[id] = 0

\* a reconciliation has run to its end and nothing else is running
ReconcileCompleted == ops >= 1 /\ Quiet

\* enabled rules whose document decodes and passes the connection, adapter
\* and runtime validation
ValidEnabledRules ==
    {id \in Rules : Enabled(id) /\ rows[id].json.ok /\ ResolveFailure(rows[id].json.spec) = ""}

ScheduledRules == {id \in Rules : jobs[id] # 0}

\* C26: when a reconciliation has completed with no rule event in flight,
\* the ruleIds in the registry are exactly the enabled rules that passed
\* runtime validation (Jobs of rules disabled or deleted meanwhile without
\* a delivered event are gone).
C26_ReconcileMakesRegistryMatchStore ==
    ReconcileCompleted => (ScheduledRules = ValidEnabledRules)

\* C28: execute and normalizeParameters leave the registered Job's
\* RuleSpec, the elements of its parameters list included, as it was
\* scheduled, so that concurrent runs of the rule share no written memory.
C28_JobSpecUnmodified ==
    \A id \in Rules :
        jobs[id] # 0 => jobTab[jobs[id]].spec = rows[id].json.spec

\* C30: a machine unit's selectedColumns never holds more entries than
\* the limit, also when add-columns requests for the unit are handled
\* concurrently.
C30_SelectedColumnsWithinLimit ==
    Len(decodeStringArray(udb)) <= ColumnLimit

\* a caller is inside a registry method (waiting for r.mu or holding it)
InRegistryCall(c) == cpc[c] # "idle"

\* the step is taken by the goroutine that holds r.mu
StepOfHolder == mu # 0 /\ cpc'[mu] # cpc[mu]

\* C27: the goroutine holding the registry lock makes no adapter call, no
\* store call and no enqueue while it holds it (its steps leave the
\* queue, the evaluations, the alerts and the rule rows alone, and no
\* ticker or worker ever holds the lock), and every Schedule, Unschedule,
\* ListJobs and Stop call completes, whatever the tickers, the workers and
\* the queue do.
C27_LockNotHeldAcrossBlockingCalls ==
    /\ [][StepOfHolder => UNCHANGED <<queue, evals, alerts, rows>>]_vars
    /\ [](mu # 0 => (mu \in Callers /\ cpc[mu] = "held"))
    /\ \A c \in Callers : InRegistryCall(c) ~> ~InRegistryCall(c)

\* a caller holds the lock while the queue is full, a ticker is blocked on
\* its send and the worker is inside an evaluation
C27_Witness ==
    /\ mu # 0
    /\ Len(queue) = QueueCap
    /\ \E j \in 1..Len(jobTab) : jobTab[j].tpc = "send"
    /\ \E w \in RunningWorkers : wpc[w] = "evaluateParameter"
    /\ \E c \in Callers : cpc[c] = "Lock"

\* Jobs that are not (or no longer) the registry's entry of their rule
Unregistered(j) == \A id \in Rules : jobs[id] # j

\* C29: across every interleaving of Schedule, Unschedule and Stop calls,
\* Stop called more than once and Schedule called after Stop included, no
\* Job's stop signal is closed twice, and every Job removed from or
\* replaced in the registry map has had its stop signal closed.
C29_StopSignalClosedOnce ==
    \A j \in 1..Len(jobTab) :
        /\ jobTab[j].stop <= 1
        /\ Unregistered(j) => jobTab[j].stop = 1
        /\ ~Unregistered(j) => jobTab[j].stop = 0

\* Stop has run twice; a Job scheduled between the two calls and the Jobs
\* replaced and stopped before it are all closed once
C29_Witness ==
    /\ nstop = 2
    /\ Len(jobTab) = MaxJobs
    /\ \A j \in 1..Len(jobTab) : jobTab[j].stop = 1 /\ Unregistered(j)

====
